---- MODULE Spec2Model ----
(***************************************************************************)
(* A model of doi_common.py (JaneliaSciComp/doi_common): the author        *)
(* identity resolver, the date / journal / title accessors and the         *)
(* given-name variant generator.                                           *)
(*                                                                         *)
(* Conventions.                                                            *)
(*  - A Python str is a sequence of one-character strings, so that         *)
(*    substring tests, split, replace, rstrip and the regular expressions  *)
(*    are computed character by character.  Identifiers the code never     *)
(*    looks inside (an ORCID after its split, an employeeId, a group) are  *)
(*    plain TLA+ strings.                                                  *)
(*  - A Python dict is a function whose DOMAIN is the set of keys present: *)
(*    'k' in d  is  k \in DOMAIN d.                                        *)
(*  - A value that is either None or a dict (the result of find_one) is a  *)
(*    sequence of length 0 or 1.                                           *)
(*  - A call that raises is recorded by the name of the exception.         *)
(***************************************************************************)
EXTENDS Integers, Sequences, FiniteSets, TLC

VARIABLES
    coll,      \* the orcid collection: the identity records in natural order
    entry,     \* the author entry of the record get_author_details works on
    result,    \* outcome of the latest resolution of entry
    prev,      \* outcome of the resolution before it
    calls,     \* number of resolutions of entry so far
    rec,       \* a bibliographic record (Crossref or DataCite)
    call,      \* the accessor last called on rec
    out,       \* what that accessor returned (or the exception it raised)
    orec,      \* an orcid-collection record whose name lists are expanded in place
    idrec,     \* the People-service record used for the expansion (None: <<>>)
    before,    \* orec as it was before the latest expansion
    runs,      \* number of expansions of orec so far
    seen,      \* outcomes of the get_author_list calls made on rec, by arguments
    doi,       \* the DOI a citation is asked for
    remote,    \* what the registry queried and the PMID service reply for doi
    asked,     \* the services short_citation has queried, in order
    pmap,      \* the project map: display name -> project
    process,   \* the dois_to_process collection
    dcoll,     \* the dois collection
    ops        \* write and lookup operations performed on the collections

vars == <<coll, entry, result, prev, calls, rec, call, out, orec, idrec, before, runs,
          seen, doi, remote, asked, pmap, process, dcoll, ops>>

resolveVars == <<coll, entry, result, prev, calls>>
recordVars  == <<rec, call, out>>
nameVars    == <<orec, idrec, before, runs>>
listVars    == <<seen>>
\* the variables the resolver, the record accessors and the name expansion
\* never touch
citeVars    == <<doi, remote, asked>>
affilVars   == <<pmap>>
storeVars   == <<process, dcoll, ops>>
extraVars   == <<listVars, citeVars, affilVars, storeVars>>

-----------------------------------------------------------------------------
(* Bounds of the model                                                     *)

MaxRows == 2        \* identity records in the collection
MaxCalls == 2       \* resolutions of one author entry
MaxGiven == 2       \* given names on the record before expansion
MaxRuns == 2        \* expansions of one record

-----------------------------------------------------------------------------
(* dicts, lists and strings                                                *)

Has(d, k) == k \in DOMAIN d

Put(d, k, v) == (k :> v) @@ d

Range(s) == {s[i] : i \in DOMAIN s}

Min(S) == CHOOSE m \in S : \A n \in S : m <= n

\* Python: sub in s, for strings
Contains(s, sub) ==
    \E i \in 1..(Len(s) - Len(sub) + 1) : SubSeq(s, i, i + Len(sub) - 1) = sub

Truthy(v) == v # ""

\* What an accessor returned: a str, None, or the exception it raised
Ret(v) == [raised |-> "none", isNone |-> FALSE, value |-> v]

RetNone == [raised |-> "none", isNone |-> TRUE, value |-> <<>>]

Raise(e) == [raised |-> e, isNone |-> FALSE, value |-> <<>>]

NoCall == [fn |-> "none", full |-> TRUE]

\* the state of the variables an operation does not use
IdleList == seen = <<>>
IdleCite == doi = <<>> /\ remote = <<>> /\ asked = <<>>
IdleAffil == pmap = <<>>
IdleStore == process = <<>> /\ dcoll = <<>> /\ ops = 0
IdleExtra == IdleList /\ IdleCite /\ IdleAffil /\ IdleStore

S_Janelia == <<"J", "a", "n", "e", "l", "i", "a">>
S_JaneliaRC == S_Janelia \o <<" ", "R", "C">>
S_HHMI == <<"H", "H", "M", "I">>
S_Ann == <<"A", "n", "n">>
S_AnnInitial == <<"A", ".">>
S_Bob == <<"B", "o", "b">>
S_Lee == <<"L", "e", "e">>
S_Roe == <<"R", "o", "e">>
S_Empty == <<>>

-----------------------------------------------------------------------------
(* The orcid collection                                                    *)

EmployeeIds == <<"E1", "E2", "E3", "E4">>
UserIds == <<"U1", "U2", "U3", "U4">>
Groups == <<"Lab1", "Lab2", "Lab3", "Lab4">>
GroupCodes == <<"GC1", "GC2", "GC3", "GC4">>
TagLists == << <<"Lab1">>, <<"Lab2", "Team">>, <<"Lab3">>, <<"Lab4">> >>

RowTemplates ==
    [names : {"AnnLee", "BobLeeRoe"}, orcid : {"", "O1", "O2"},
     alumni : BOOLEAN, enrolled : BOOLEAN]

\* The identity record with _id i built from template t.  An enrolled record
\* carries the fields add_orcid / the People service supply.
Row(i, t) ==
    LET base == [_id |-> i,
                 given |-> IF t.names = "AnnLee" THEN <<S_Ann, S_AnnInitial>> ELSE <<S_Bob>>,
                 family |-> IF t.names = "AnnLee" THEN <<S_Lee>> ELSE <<S_Lee, S_Roe>>]
        r1 == IF t.orcid = "" THEN base ELSE Put(base, "orcid", t.orcid)
        r2 == IF t.alumni THEN Put(r1, "alumni", TRUE) ELSE r1
    IN  IF t.enrolled
        THEN [k \in DOMAIN r2 \cup {"employeeId", "userIdO365", "workerType", "group",
                                    "group_code", "affiliations"} |->
                CASE k = "employeeId" -> EmployeeIds[i]
                  [] k = "userIdO365" -> UserIds[i]
                  [] k = "workerType" -> IF i % 2 = 1 THEN "Employee" ELSE ""
                  [] k = "group" -> Groups[i]
                  [] k = "group_code" -> GroupCodes[i]
                  [] k = "affiliations" -> TagLists[i]
                  [] OTHER -> r2[k]]
        ELSE r2

Registries ==
    UNION { {[i \in 1..n |-> Row(i, ts[i])] : ts \in [1..n -> RowTemplates]} : n \in 0..MaxRows }

\* Mongo: {"given": g, "family": f} against a document whose given and family
\* are arrays matches when g and f are elements of them
NameMatches(doc, g, f) == g \in Range(doc.given) /\ f \in Range(doc.family)

CountDocuments(c, g, f) == Cardinality({i \in DOMAIN c : NameMatches(c[i], g, f)})

FirstOf(c, idx) == IF idx = {} THEN <<>> ELSE <<c[Min(idx)]>>

FindOneByOrcid(c, o) == FirstOf(c, {i \in DOMAIN c : Has(c[i], "orcid") /\ c[i].orcid = o})

FindOneByName(c, g, f) == FirstOf(c, {i \in DOMAIN c : NameMatches(c[i], g, f)})

-----------------------------------------------------------------------------
(* _adjust_payload                                                         *)

\* faulty variant: the alumni marker is ignored
JanelianFromRow_Always(row) == TRUE

JanelianFromRow(row) == ~Has(row, "alumni")

CopyIfPresent(p, row, from, to) == IF Has(row, from) THEN Put(p, to, row[from]) ELSE p

CopyIfTruthy(p, row, k) == IF Has(row, k) /\ Truthy(row[k]) THEN Put(p, k, row[k]) ELSE p

AdjustPayload(payload, found) ==
    IF found = <<>> THEN payload
    ELSE LET row == found[1]
             p1 == Put(payload, "orcid", IF Has(row, "orcid") THEN row.orcid ELSE "")
             p2 == Put(p1, "in_database", TRUE)
             p3 == IF Has(row, "employeeId") THEN Put(p2, "validated", TRUE) ELSE p2
             p4 == Put(p3, "janelian", JanelianFromRow(row))
             p5 == IF Has(row, "alumni") THEN Put(p4, "alumni", TRUE) ELSE p4
             p6 == CopyIfPresent(p5, row, "group", "group")
             p7 == CopyIfPresent(p6, row, "group_code", "group_code")
             p8 == CopyIfPresent(p7, row, "affiliations", "tags")
             p9 == CopyIfTruthy(p8, row, "employeeId")
             p10 == CopyIfTruthy(p9, row, "userIdO365")
         IN  CopyIfTruthy(p10, row, "workerType")

-----------------------------------------------------------------------------
(* _add_single_author_jrc                                                  *)

\* faulty variant: the alumni flag starts set
Defaults_AlumniSet(payload) ==
    [k \in DOMAIN payload \cup {"in_database", "janelian", "asserted", "alumni",
                                "validated", "match"} |->
        CASE k = "match" -> "None"
          [] k = "alumni" -> TRUE
          [] k \in {"in_database", "janelian", "asserted", "validated"} -> FALSE
          [] OTHER -> payload[k]]

Defaults(payload) ==
    [k \in DOMAIN payload \cup {"in_database", "janelian", "asserted", "alumni",
                                "validated", "match"} |->
        CASE k = "match" -> "None"
          [] k \in {"in_database", "janelian", "asserted", "alumni", "validated"} -> FALSE
          [] OTHER -> payload[k]]

\* The function's locals: the payload, the local row (bound only once a lookup
\* has run) and the exception raised, if any
Start(payload) == [p |-> Defaults(payload), row |-> <<>>, bound |-> FALSE, raised |-> "none"]

\* faulty variant: one matching record already counts as a duplicate
IsDuplicate_Any(cnt) == cnt > 0

IsDuplicate(cnt) == cnt > 1

Matched(p, found, cnt, how) ==
    IF found = <<>> THEN p
    ELSE LET m == Put(p, "match", how)
         IN  IF IsDuplicate(cnt) THEN Put(m, "duplicate_name", TRUE) ELSE m

Lookup(st, found, cnt, how) ==
    [p |-> AdjustPayload(Matched(st.p, found, cnt, how), found),
     row |-> found, bound |-> TRUE, raised |-> "none"]

OrcidStage(st, c) ==
    IF ~Has(st.p, "orcid") THEN st
    ELSE IF ~Has(st.p, "given") \/ ~Has(st.p, "family")
         THEN [st EXCEPT !.raised = "KeyError"]
         ELSE Lookup(st, FindOneByOrcid(c, st.p.orcid),
                     CountDocuments(c, st.p.given, st.p.family), "ORCID")

\* faulty variant: the name lookup runs even after an ORCID match
NameStageGuard_NoPriority(p) == Has(p, "family")

NameStageGuard(p) == Has(p, "family") /\ p.match = "None"

NameStage(st, c) ==
    IF st.raised # "none" \/ ~NameStageGuard(st.p) THEN st
    ELSE IF ~Has(st.p, "given")
         THEN [st EXCEPT !.raised = "KeyError"]
         ELSE Lookup(st, FindOneByName(c, st.p.given, st.p.family),
                     CountDocuments(c, st.p.given, st.p.family), "name")

\* faulty variant: the asserted affiliation overrides an ORCID match too
AssertedMatch_Always(m) == "asserted"

AssertedMatch(m) == IF m # "ORCID" THEN "asserted" ELSE m

NamesOrganization(affs) == \E i \in DOMAIN affs : Contains(affs[i], S_Janelia)

AssertedStage(st) ==
    IF st.raised # "none" THEN st
    ELSE IF ~(Has(st.p, "affiliations") /\ st.p.affiliations # <<>>) THEN st
    ELSE IF ~NamesOrganization(st.p.affiliations) THEN st
    ELSE LET p1 == Put(Put(st.p, "janelian", TRUE), "asserted", TRUE)
             p2 == Put(p1, "match", AssertedMatch(p1.match))
         IN  IF ~st.bound
             THEN [st EXCEPT !.p = p2, !.raised = "UnboundLocalError"]
             ELSE [st EXCEPT !.p = AdjustPayload(p2, st.row)]

AddSingleAuthorJrc(payload, c) ==
    LET st == AssertedStage(NameStage(OrcidStage(Start(payload), c), c))
    IN  [raised |-> st.raised, payload |-> st.p]

-----------------------------------------------------------------------------
(* get_author_details, for one author entry                                *)

\* The Crossref author entries of a work: given, the family name (or a 'name'
\* for an institutional author), the ORCID URL and the affiliation list are all
\* optional.  A URL is held as its '/'-separated segments.
S_OrcidUrl == <<"https:", "", "orcid.org", "O1">>
S_Team == <<"T", "e", "a", "m">>

Entries ==
    { LET a1 == IF t.given = "absent" THEN <<>> ELSE [given |-> S_Ann]
          a2 == IF t.family = "absent" THEN Put(a1, "name", S_Team)
                ELSE Put(a1, "family", S_Lee)
          a3 == IF t.orcid = "absent" THEN a2 ELSE Put(a2, "ORCID", S_OrcidUrl)
      IN  IF t.affiliation = "absent" THEN a3
          ELSE Put(a3, "affiliation",
                   IF t.affiliation = "other" THEN << [name |-> S_HHMI] >>
                   ELSE << <<>>, [name |-> S_HHMI], [name |-> S_JaneliaRC] >>)
      : t \in [given : {"Ann", "absent"}, family : {"absent", "Lee"},
               orcid : {"absent", "url"}, affiliation : {"absent", "other", "own"}] }

\* url.split("/")[-1]
LastSegment(url) == url[Len(url)]

\* _set_paper_orcid for a Crossref author
SetPaperOrcid(auth, payload) ==
    IF Has(auth, "ORCID") THEN Put(payload, "paper_orcid", LastSegment(auth.ORCID))
    ELSE payload

\* the names of the affiliation entries that carry a non-empty name
AffiliationNames(affs) ==
    SelectSeq([i \in DOMAIN affs |->
                  IF Has(affs[i], "name") THEN affs[i].name ELSE S_Empty],
              LAMBDA n : Len(n) > 0)

NotCalled == [raised |-> "notcalled", payload |-> <<>>]

\* The payload get_author_details builds, from the dictionary `start`, for the
\* only author of a Crossref record
BuildPayload(auth, start) ==
    LET p0 == SetPaperOrcid(auth, start)
        p1 == IF Has(auth, "family") THEN Put(p0, "family", auth.family)
              ELSE IF Has(auth, "name") THEN Put(p0, "name", auth.name) ELSE p0
        p2 == Put(p1, "given", IF Has(auth, "given") THEN auth.given ELSE S_Empty)
        p3 == Put(Put(p2, "is_first", TRUE), "is_last", TRUE)
        p4 == IF Has(auth, "ORCID") THEN Put(p3, "orcid", LastSegment(auth.ORCID)) ELSE p3
        names == IF Has(auth, "affiliation") THEN AffiliationNames(auth.affiliation)
                 ELSE <<>>
    IN  IF Len(names) > 0 THEN Put(p4, "affiliations", names) ELSE p4

\* faulty variant: the dictionary of the previous call is filled in again
FreshPayload_Reused(auth) ==
    BuildPayload(auth, IF result = NotCalled THEN <<>> ELSE result.payload)

\* payload = {} for every author of every call
FreshPayload(auth) == BuildPayload(auth, <<>>)

ResolveAuthor ==
    /\ calls < MaxCalls
    /\ result' = AddSingleAuthorJrc(FreshPayload(entry), coll)
    /\ prev' = result
    /\ calls' = calls + 1
    /\ UNCHANGED <<coll, entry, recordVars, nameVars, extraVars>>

InitResolve ==
    /\ coll \in Registries
    /\ entry \in Entries
    /\ result = NotCalled
    /\ prev = NotCalled
    /\ calls = 0
    /\ rec = <<>> /\ call = NoCall /\ out = RetNone
    /\ orec = <<>> /\ idrec = <<>> /\ before = <<>> /\ runs = 0
    /\ IdleExtra

NextResolve == ResolveAuthor

SpecResolve == InitResolve /\ [][NextResolve]_vars

-----------------------------------------------------------------------------
(* Strings of the accessors                                                *)

S_unknown == <<"u", "n", "k", "n", "o", "w", "n">>
S_NoTitle == <<"N", "o", " ", "t", "i", "t", "l", "e">>
S_preprint == <<"p", "r", "e", "p", "r", "i", "n", "t">>
S_elife == <<"e", "l", "i", "f", "e">>
S_eLife == <<"e", "L", "i", "f", "e">>
S_osfio == <<"o", "s", "f", ".", "i", "o">>
S_peerj == <<"p", "e", "e", "r", "j", ".", "p", "r", "e", "p", "r", "i", "n", "t", "s">>
S_PeerJ == <<"P", "e", "e", "r", "J">>
S_protocolsio == <<"p", "r", "o", "t", "o", "c", "o", "l", "s", ".", "i", "o">>

\* Python: s.split(ch)[0]
SplitFirst(s, ch) ==
    LET hits == {i \in DOMAIN s : s[i] = ch}
    IN  IF hits = {} THEN s ELSE SubSeq(s, 1, Min(hits) - 1)

\* Python: s.split(ch)[-1]
SplitLast(s, ch) ==
    LET hits == {i \in DOMAIN s : s[i] = ch}
    IN  IF hits = {} THEN s
        ELSE LET last == CHOOSE m \in hits : \A n \in hits : n <= m
             IN  SubSeq(s, last + 1, Len(s))

DigitChars == <<"0", "1", "2", "3", "4", "5", "6", "7", "8", "9">>

\* Python: str(n), n >= 0
RECURSIVE Str(_)
Str(n) == IF n < 10 THEN <<DigitChars[n + 1]>>
          ELSE Str(n \div 10) \o <<DigitChars[(n % 10) + 1]>>

\* faulty variant: month and day are not padded
Pad2_Unpadded(n) == Str(n)

\* Python: f"{n:02}", n >= 0
Pad2(n) == IF Len(Str(n)) < 2 THEN <<"0">> \o Str(n) ELSE Str(n)

-----------------------------------------------------------------------------
(* get_publishing_date                                                     *)

Sections == <<"published", "published-print", "published-online", "posted", "created">>

FormatDate(arr) == Str(arr[1]) \o <<"-">> \o Pad2(arr[2]) \o <<"-">> \o Pad2(arr[3])

\* the for loop from section i on
RECURSIVE ScanSections(_, _)
ScanSections(r, i) ==
    IF i > Len(Sections) THEN Ret(S_unknown)
    ELSE LET sec == Sections[i]
         IN  IF ~Has(r, sec) THEN ScanSections(r, i + 1)
             ELSE IF ~Has(r[sec], "date-parts") THEN ScanSections(r, i + 1)
             ELSE IF Len(r[sec]["date-parts"]) = 0 THEN Raise("IndexError")
             ELSE IF Len(r[sec]["date-parts"][1]) = 3
                  THEN Ret(FormatDate(r[sec]["date-parts"][1]))
                  ELSE ScanSections(r, i + 1)

PublishingDate(r) ==
    IF Has(r, "DOI") THEN ScanSections(r, 1)
    ELSE IF Has(r, "registered") THEN Ret(SplitFirst(r.registered, "T"))
    ELSE Ret(S_unknown)

-----------------------------------------------------------------------------
(* get_journal                                                             *)

\* A JSON value that is a list or an object (rec['institution']) is
\* [list |-> <<...>>] or [dict |-> [...]], so that isinstance(v, list) can be told
IsList(v) == Has(v, "list")

NonEmptyList(r, k) == Has(r, k) /\ Len(r[k]) > 0

InstitutionName(v) ==
    IF IsList(v)
    THEN IF Len(v.list) = 0 THEN Raise("IndexError")
         ELSE IF ~Has(v.list[1], "name") THEN Raise("KeyError")
         ELSE Ret(v.list[1].name)
    ELSE IF ~Has(v.dict, "name") THEN Raise("KeyError")
         ELSE Ret(v.dict.name)

\* the venue: the if / elif chain; None when no branch applies
Venue(r) ==
    IF NonEmptyList(r, "short-container-title") THEN Ret(r["short-container-title"][1])
    ELSE IF NonEmptyList(r, "container-title") THEN Ret(r["container-title"][1])
    ELSE IF Has(r, "institution") THEN InstitutionName(r.institution)
    ELSE IF Contains(r.DOI, S_elife) /\ Has(r, "subtype") /\ r.subtype = S_preprint
         THEN Ret(S_eLife)
    ELSE IF Contains(r.DOI, S_osfio) THEN Ret(S_osfio)
    ELSE IF Contains(r.DOI, S_peerj) THEN Ret(S_PeerJ)
    ELSE IF Contains(r.DOI, S_protocolsio) THEN Ret(S_protocolsio)
    ELSE RetNone

\* faulty variant: without a page nothing is appended (the DOI segment is dropped)
Locator_PageOnly(r) ==
    IF Has(r, "page") THEN <<":", " ">> \o r.page ELSE <<>>

\* ': ' + page, or ': ' + the last '/'-segment of the DOI
Locator(r) ==
    IF Has(r, "page") THEN <<":", " ">> \o r.page
    ELSE <<":", " ">> \o SplitLast(r.DOI, "/")

VolumePart(r) == IF Has(r, "volume") THEN <<";", " ">> \o r.volume ELSE <<>>

Journal(r, full) ==
    IF Has(r, "DOI")
    THEN LET venue == Venue(r)
             year == PublishingDate(r)
         IN  IF venue.raised # "none" THEN venue
             ELSE IF venue.isNone THEN RetNone
             ELSE IF year.raised # "none" THEN year
             ELSE IF year.value = S_unknown THEN RetNone
             ELSE LET j == venue.value \o <<".", " ">> \o SplitFirst(year.value, "-")
                  IN  IF full THEN Ret(j \o VolumePart(r) \o Locator(r)) ELSE Ret(j)
    ELSE LET year == PublishingDate(r)
         IN  IF year.raised # "none" THEN year
             ELSE IF year.value = S_unknown THEN RetNone
             ELSE IF Has(r, "publisher") /\ Len(r.publisher) > 0
                  THEN Ret(r.publisher \o <<".", " ">> \o SplitFirst(year.value, "-"))
                  ELSE RetNone

-----------------------------------------------------------------------------
(* get_title                                                               *)

Title(r) ==
    IF Has(r, "DOI")
    THEN IF NonEmptyList(r, "title") /\ Len(r.title[1]) > 0
         THEN Ret(r.title[1]) ELSE Ret(S_NoTitle)
    ELSE IF NonEmptyList(r, "titles") /\ Has(r.titles[1], "title")
         THEN Ret(r.titles[1].title) ELSE Ret(S_NoTitle)

-----------------------------------------------------------------------------
(* The bibliographic records and the accessor calls                        *)

S_DoiPlain == <<"1", "0", ".", "1", "/", "c", "n", "e", ".", "2">>
S_DoiElife == <<"1", "0", ".", "7", "/">> \o S_elife \o <<".", "9">>
S_DoiOsf == <<"1", "0", ".", "3", "/">> \o S_osfio \o <<"/", "a", "b">>
S_DoiPeerj == <<"1", "0", ".", "7", "/">> \o S_peerj \o <<".", "3">>
S_DoiProtocols == <<"1", "0", ".", "1", "/">> \o S_protocolsio \o <<".", "x">>
S_ShortTitle == <<"J", "C", "N">>
S_ContainerTitle == <<"J", " ", "C", "o", "m", "p">>
S_Institution == <<"b", "i", "o", "R", "x", "i", "v">>
S_Volume == <<"5", "1", "9">>
S_Page == <<"6", "6", "1", "-", "6", "8", "9">>
S_TitleText == <<"A", " ", "t", "i", "t", "l", "e">>
S_Publisher == <<"Z", "e", "n", "o", "d", "o">>
S_Registered ==
    <<"2", "0", "2", "4", "-", "0", "7", "-", "3", "0", "T", "1", "2", ":", "0", "0", "Z">>

\* the [year, month, day] each section carries when it is complete
SectionDates ==
    << <<2011, 9, 1>>, <<2012, 10, 5>>, <<2013, 1, 31>>, <<2014, 12, 12>>, <<2015, 7, 30>> >>

\* a date section: an object without 'date-parts', with an empty 'date-parts'
\* list, with a [year, month] array or with a complete array
SectionValue(i, shape) ==
    CASE shape = "nodp" -> <<>>
      [] shape = "empty" -> ("date-parts" :> <<>>)
      [] shape = "partial" -> ("date-parts" :> << SubSeq(SectionDates[i], 1, 2) >>)
      [] shape = "complete" -> ("date-parts" :> << SectionDates[i] >>)

WithSections(base, shapes) ==
    [k \in DOMAIN base \cup {Sections[i] : i \in {j \in DOMAIN Sections : shapes[j] # "absent"}} |->
        IF k \in DOMAIN base THEN base[k]
        ELSE LET i == CHOOSE j \in DOMAIN Sections : Sections[j] = k
             IN  SectionValue(i, shapes[i])]

Optional(d, k, v, present) == IF present THEN Put(d, k, v) ELSE d

\* Crossref records that differ in their date sections
DateRecordsA ==
    { WithSections(("DOI" :> S_DoiPlain) @@ ("container-title" :> <<S_ContainerTitle>>), shapes)
      : shapes \in [DOMAIN Sections -> {"absent", "nodp", "empty", "partial", "complete"}] }

InstitutionValues ==
    { [list |-> <<>>], [list |-> <<[name |-> S_Institution]>>], [list |-> << <<>> >>],
      [dict |-> [name |-> S_Institution]], [dict |-> <<>>] }

\* Crossref records that differ in their venue, volume and page
JournalRecordsA ==
    { LET r1 == ("DOI" :> t.doi)
          r2 == IF t.short = "absent" THEN r1
                ELSE Put(r1, "short-container-title",
                         IF t.short = "empty" THEN <<>> ELSE <<S_ShortTitle>>)
          r3 == IF t.container = "absent" THEN r2
                ELSE Put(r2, "container-title",
                         IF t.container = "empty" THEN <<>> ELSE <<S_ContainerTitle>>)
          r4 == IF t.institution = <<>> THEN r3 ELSE Put(r3, "institution", t.institution[1])
          r5 == Optional(r4, "subtype", S_preprint, t.preprint)
          r6 == Optional(r5, "volume", S_Volume, t.volume)
          r7 == Optional(r6, "page", S_Page, t.page)
      IN  Optional(r7, "published", SectionValue(1, "complete"), t.dated)
      : t \in [doi : {S_DoiPlain, S_DoiElife, S_DoiOsf, S_DoiPeerj, S_DoiProtocols},
               short : {"absent", "empty", "one"}, container : {"absent", "empty", "one"},
               institution : {<<>>} \cup {<<v>> : v \in InstitutionValues},
               preprint : BOOLEAN, volume : BOOLEAN, page : BOOLEAN, dated : BOOLEAN] }

\* Crossref records that differ in their title
TitleRecordsA ==
    { ("DOI" :> S_DoiPlain) }
    \cup { ("DOI" :> S_DoiPlain) @@ ("title" :> t) : t \in {<<>>, <<S_Empty>>, <<S_TitleText>>} }

\* DataCite records
RecordsB ==
    { LET r1 == Optional(<<>>, "registered", S_Registered, t.registered)
          r2 == IF t.publisher = "absent" THEN r1
                ELSE Put(r1, "publisher", IF t.publisher = "empty" THEN S_Empty ELSE S_Publisher)
      IN  IF t.titles = "absent" THEN r2
          ELSE Put(r2, "titles", CASE t.titles = "empty" -> <<>>
                                   [] t.titles = "untitled" -> << <<>> >>
                                   [] t.titles = "one" -> <<[title |-> S_TitleText]>>)
      : t \in [registered : BOOLEAN, publisher : {"absent", "empty", "one"},
               titles : {"absent", "empty", "untitled", "one"}] }

Records == DateRecordsA \cup JournalRecordsA \cup TitleRecordsA \cup RecordsB

GetPublishingDate ==
    /\ call' = [fn |-> "get_publishing_date", full |-> TRUE]
    /\ out' = PublishingDate(rec)
    /\ UNCHANGED <<rec, resolveVars, nameVars, extraVars>>

GetJournal ==
    \E full \in BOOLEAN :
        /\ call' = [fn |-> "get_journal", full |-> full]
        /\ out' = Journal(rec, full)
        /\ UNCHANGED <<rec, resolveVars, nameVars, extraVars>>

GetTitle ==
    /\ call' = [fn |-> "get_title", full |-> TRUE]
    /\ out' = Title(rec)
    /\ UNCHANGED <<rec, resolveVars, nameVars, extraVars>>

InitRecord ==
    /\ rec \in Records
    /\ call = NoCall
    /\ out = RetNone
    /\ coll = <<>> /\ entry = <<>> /\ result = NotCalled /\ prev = NotCalled /\ calls = 0
    /\ orec = <<>> /\ idrec = <<>> /\ before = <<>> /\ runs = 0
    /\ IdleExtra

NextRecord == GetPublishingDate \/ GetJournal \/ GetTitle

SpecRecord == InitRecord /\ [][NextRecord]_vars

-----------------------------------------------------------------------------
(* _process_middle_initials and get_name_combinations                      *)

Letters ==
    {"A", "B", "C", "D", "E", "F", "G", "H", "I", "J", "K", "L", "M", "N", "O", "P", "Q",
     "R", "S", "T", "U", "V", "W", "X", "Y", "Z", "a", "b", "c", "d", "e", "f", "g", "h",
     "i", "j", "k", "l", "m", "n", "o", "p", "q", "r", "s", "t", "u", "v", "w", "x", "y",
     "z"}

\* re.search(r"[A-Za-z]\. [A-Za-z]\.$", s)
EndsSpacedInitials(s) ==
    LET n == Len(s)
    IN  /\ n >= 5
        /\ s[n] = "." /\ s[n - 1] \in Letters /\ s[n - 2] = " "
        /\ s[n - 3] = "." /\ s[n - 4] \in Letters

\* re.search(r"[A-Za-z]\.[A-Za-z]\.$", s)
EndsJoinedInitials(s) ==
    LET n == Len(s)
    IN  /\ n >= 4
        /\ s[n] = "." /\ s[n - 1] \in Letters /\ s[n - 2] = "." /\ s[n - 3] \in Letters

\* re.search(r" [A-Za-z]\.$", s)
EndsMiddleInitial(s) ==
    LET n == Len(s)
    IN  n >= 3 /\ s[n] = "." /\ s[n - 1] \in Letters /\ s[n - 2] = " "

\* s.replace('.', ' ')
ReplaceDots(s) == [i \in DOMAIN s |-> IF s[i] = "." THEN " " ELSE s[i]]

\* s.rstrip('.')
RECURSIVE RStripDots(_)
RStripDots(s) ==
    IF Len(s) > 0 /\ s[Len(s)] = "." THEN RStripDots(SubSeq(s, 1, Len(s) - 1)) ELSE s

\* faulty variant: the variant is appended without looking for it in the list
AppendNew_Always(list, new) == Append(list, new)

\* if new not in list: list.append(new)
AppendNew(list, new) == IF new \in Range(list) THEN list ELSE Append(list, new)

\* for first in rec['given'], from index i on; the loop also visits the entries
\* it appends
RECURSIVE MiddleInitialsLoop(_, _)
MiddleInitialsLoop(given, i) ==
    IF i > Len(given) THEN given
    ELSE LET first == given[i]
         IN  IF EndsSpacedInitials(first) THEN MiddleInitialsLoop(given, i + 1)
             ELSE IF EndsJoinedInitials(first)
                  THEN MiddleInitialsLoop(AppendNew(given, ReplaceDots(first)), i + 1)
             ELSE IF EndsMiddleInitial(first)
                  THEN MiddleInitialsLoop(AppendNew(given, RStripDots(first)), i + 1)
             ELSE MiddleInitialsLoop(given, i + 1)

ProcessMiddleInitials(r) == [r EXCEPT !.given = MiddleInitialsLoop(r.given, 1)]

\* source in idrec and idrec[source]
Supplied(id, source) == Has(id, source) /\ Len(id[source]) > 0

RECURSIVE AddSources(_, _, _)
AddSources(list, id, sources) ==
    IF Len(sources) = 0 THEN list
    ELSE AddSources(IF Supplied(id, sources[1]) THEN AppendNew(list, id[sources[1]]) ELSE list,
                    id, Tail(sources))

\* for first in rec['given'], from index i on: "First M" and "First M." for every
\* entry without a space
RECURSIVE MiddleNameLoop(_, _, _)
MiddleNameLoop(given, initial, i) ==
    IF i > Len(given) THEN given
    ELSE LET first == given[i]
         IN  IF " " \in Range(first) THEN MiddleNameLoop(given, initial, i + 1)
             ELSE LET new == first \o <<" ", initial>>
                      g1 == AppendNew(given, new)
                  IN  MiddleNameLoop(AppendNew(g1, new \o <<".">>), initial, i + 1)

RECURSIVE AddMiddles(_, _, _)
AddMiddles(given, id, sources) ==
    IF Len(sources) = 0 THEN given
    ELSE AddMiddles(IF Supplied(id, sources[1])
                    THEN MiddleNameLoop(given, id[sources[1]][1], 1) ELSE given,
                    id, Tail(sources))

NameCombinations(id, r) ==
    IF id = <<>> THEN ProcessMiddleInitials(r)
    ELSE LET g1 == AddSources(r.given, id, <<"nameFirst", "nameFirstPreferred">>)
             f1 == AddSources(r.family, id, <<"nameLast", "nameLastPreferred">>)
             g2 == AddMiddles(g1, id, <<"nameMiddle", "nameMiddlePreferred">>)
         IN  ProcessMiddleInitials([r EXCEPT !.given = g2, !.family = f1])

S_Al == <<"A", "l">>
S_AlB == <<"A", "l", " ", "B">>
S_AlBDot == <<"A", "l", " ", "B", ".">>
S_ADotBDot == <<"A", ".", "B", ".">>
S_ADotSpaceBDot == <<"A", ".", " ", "B", ".">>
S_AlDotBDot == <<"A", "l", ".", "B", ".">>
S_Jo == <<"J", "o">>
S_JoCDot == <<"J", "o", " ", "C", ".">>
S_Bea == <<"B", "e", "a">>
S_Cy == <<"C", "y">>

GivenPool ==
    {S_Al, S_AlB, S_AlBDot, S_ADotBDot, S_ADotSpaceBDot, S_AlDotBDot, S_Jo, S_JoCDot}

\* the duplicate-free lists of at most n names of the pool
DistinctLists(pool, n) ==
    {l \in UNION {[1..k -> pool] : k \in 0..n} :
        \A i, j \in DOMAIN l : i # j => l[i] # l[j]}

\* records of the People service: every name field may be missing or empty
IdRecs ==
    {<<>>} \cup
    { LET i1 == IF t.first = "absent" THEN ("userIdO365" :> "U1")
                ELSE Put(("userIdO365" :> "U1"), "nameFirst",
                         IF t.first = "empty" THEN S_Empty ELSE S_Al)
          i2 == Optional(i1, "nameFirstPreferred", S_Jo, t.firstPreferred)
          i3 == IF t.middle = "absent" THEN i2
                ELSE Put(i2, "nameMiddle", IF t.middle = "empty" THEN S_Empty ELSE S_Bea)
          i4 == Optional(i3, "nameMiddlePreferred", S_Cy, t.middlePreferred)
          i5 == Optional(i4, "nameLast", S_Lee, t.last)
      IN  Optional(i5, "nameLastPreferred", S_Roe, t.lastPreferred)
      : t \in [first : {"absent", "empty", "one"}, firstPreferred : BOOLEAN,
               middle : {"absent", "empty", "one"}, middlePreferred : BOOLEAN,
               last : BOOLEAN, lastPreferred : BOOLEAN] }

GetNameCombinations ==
    /\ runs < MaxRuns
    /\ before' = orec
    /\ orec' = NameCombinations(idrec, orec)
    /\ runs' = runs + 1
    /\ UNCHANGED <<idrec, resolveVars, recordVars, extraVars>>

InitNames ==
    /\ orec \in [given : DistinctLists(GivenPool, MaxGiven), family : {<<>>, <<S_Lee>>}]
    /\ idrec \in IdRecs
    /\ before = <<>>
    /\ runs = 0
    /\ coll = <<>> /\ entry = <<>> /\ result = NotCalled /\ prev = NotCalled /\ calls = 0
    /\ rec = <<>> /\ call = NoCall /\ out = RetNone
    /\ IdleExtra

NextNames == GetNameCombinations

SpecNames == InitNames /\ [][NextNames]_vars

-----------------------------------------------------------------------------
(* Properties of the identity resolution                                   *)

Returned == calls >= 1 /\ result.raised = "none"

Resolved == result.payload

\* the records the identifier query {"orcid": <id of the entry's ORCID>} matches
OrcidRows ==
    IF Has(entry, "ORCID")
    THEN {i \in DOMAIN coll : Has(coll[i], "orcid")
                              /\ coll[i].orcid = entry.ORCID[Len(entry.ORCID)]}
    ELSE {}

\* the records the name query {"given": ..., "family": ...} matches
NameRows ==
    IF Has(entry, "family")
    THEN {i \in DOMAIN coll : Has(entry, "given")
                              /\ entry.given \in Range(coll[i].given)
                              /\ entry.family \in Range(coll[i].family)}
    ELSE {}

EntryAsserts ==
    Has(entry, "affiliation")
    /\ \E i \in DOMAIN entry.affiliation :
          Has(entry.affiliation[i], "name")
          /\ Contains(entry.affiliation[i].name, S_Janelia)

SameOrAbsent(p, k, R, from) ==
    IF Has(R, from) THEN Has(p, k) /\ p[k] = R[from] ELSE ~Has(p, k)

SameIfNonEmpty(p, k, R) ==
    IF Has(R, k) /\ R[k] # "" THEN Has(p, k) /\ p[k] = R[k] ELSE ~Has(p, k)

FieldsComeFrom(p, R) ==
    /\ p.orcid = R.orcid
    /\ p.in_database
    /\ \A k \in {"employeeId", "userIdO365", "workerType"} : SameIfNonEmpty(p, k, R)
    /\ \A k \in {"group", "group_code"} : SameOrAbsent(p, k, R, k)
    /\ SameOrAbsent(p, "tags", R, "affiliations")
    /\ p.alumni = Has(R, "alumni")
    /\ p.janelian = ~Has(R, "alumni")
    /\ p.validated = Has(R, "employeeId")

\* C1: a returned payload whose ORCID matches identity records has match = 'ORCID'
\* and all its registry fields (orcid, employeeId, userIdO365, workerType, group,
\* group_code, tags, alumni, janelian, validated) come from one record with that
\* ORCID, whatever record its name matches and whatever its affiliations say.
C1_OrcidMatchWins ==
    (Returned /\ OrcidRows # {}) =>
        /\ Resolved.match = "ORCID"
        /\ \E i \in OrcidRows : FieldsComeFrom(Resolved, coll[i])

C1_Witness ==
    /\ Returned /\ OrcidRows # {} /\ EntryAsserts
    /\ NameRows # {} /\ NameRows \cap OrcidRows = {}
    /\ \E i \in OrcidRows : Has(coll[i], "employeeId")

\* C2 (as claimed): after a resolution match is 'ORCID' if the identifier lookup
\* found a record, else 'name' if the name lookup found one, else 'asserted' if an
\* affiliation names the organization, else None.
C2_PriorityAsClaimed ==
    Returned =>
        Resolved.match = IF OrcidRows # {} THEN "ORCID"
                         ELSE IF NameRows # {} THEN "name"
                         ELSE IF EntryAsserts THEN "asserted"
                         ELSE "None"

\* C2 (amended): after a resolution match is 'ORCID' if the identifier lookup found
\* a record, else 'asserted' if an affiliation names the organization, else 'name'
\* if the name lookup found a record, else None.
C2_PriorityAmended ==
    Returned =>
        Resolved.match = IF OrcidRows # {} THEN "ORCID"
                         ELSE IF EntryAsserts THEN "asserted"
                         ELSE IF NameRows # {} THEN "name"
                         ELSE "None"

C2_Witness ==
    /\ Returned /\ OrcidRows = {} /\ NameRows # {} /\ EntryAsserts
    /\ Resolved.match = "asserted" /\ Resolved.in_database

\* C3 (as claimed): a returned payload whose affiliations name the organization
\* has janelian = true and asserted = true, whatever the registry returned.
C3_AssertedIsJanelian ==
    (Returned /\ EntryAsserts) => (Resolved.janelian /\ Resolved.asserted)

\* C4 (as claimed): with no ORCID match, a name that matches some record carrying
\* the alumni marker resolves to janelian = false and alumni = true.
C4_AlumniAsClaimed ==
    (Returned /\ OrcidRows = {} /\ \E i \in NameRows : Has(coll[i], "alumni")) =>
        (~Resolved.janelian /\ Resolved.alumni)

\* C4 (amended): with no ORCID match, a name whose first matching record (the one
\* find_one returns) carries the alumni marker resolves to janelian = false and
\* alumni = true, for any affiliation list.
C4_AlumniAmended ==
    (Returned /\ OrcidRows = {} /\ NameRows # {} /\ Has(coll[Min(NameRows)], "alumni")) =>
        (~Resolved.janelian /\ Resolved.alumni)

C4_Witness ==
    /\ Returned /\ OrcidRows = {} /\ NameRows # {} /\ Has(coll[Min(NameRows)], "alumni")
    /\ EntryAsserts /\ Has(entry, "ORCID") /\ Resolved.alumni

\* C5: a payload with a (given, family) pair is resolved without an exception and
\* has duplicate_name = true exactly when more than one identity record matches
\* the pair, whether it was matched by ORCID or by name.
C5_DuplicateName ==
    (calls >= 1 /\ Has(entry, "family")) =>
        /\ result.raised = "none"
        /\ (Has(Resolved, "duplicate_name") /\ Resolved.duplicate_name)
               <=> (Cardinality(NameRows) > 1)

C5_Witness ==
    /\ Returned /\ Has(entry, "family") /\ Cardinality(NameRows) > 1
    /\ Resolved.match = "ORCID" /\ Resolved.duplicate_name

-----------------------------------------------------------------------------
(* Properties of the accessors                                             *)

DigitValue(c) == CHOOSE d \in 0..9 : DigitChars[d + 1] = c

IsDigits(s) == \A i \in DOMAIN s : s[i] \in Range(DigitChars)

\* the number a string of digits denotes
RECURSIVE Num(_)
Num(s) == IF Len(s) = 0 THEN 0
          ELSE 10 * Num(SubSeq(s, 1, Len(s) - 1)) + DigitValue(s[Len(s)])

\* s is YYYY-MM-DD and denotes the date arr
IsIsoDate(s, arr) ==
    /\ Len(s) = 10 /\ s[5] = "-" /\ s[8] = "-"
    /\ IsDigits(SubSeq(s, 1, 4)) /\ Num(SubSeq(s, 1, 4)) = arr[1]
    /\ IsDigits(SubSeq(s, 6, 7)) /\ Num(SubSeq(s, 6, 7)) = arr[2]
    /\ IsDigits(SubSeq(s, 9, 10)) /\ Num(SubSeq(s, 9, 10)) = arr[3]

\* the sections whose first date-parts array has exactly 3 parts
CompleteSections(r) ==
    {i \in DOMAIN Sections :
        /\ Has(r, Sections[i])
        /\ Has(r[Sections[i]], "date-parts")
        /\ Len(r[Sections[i]]["date-parts"]) > 0
        /\ Len(r[Sections[i]]["date-parts"][1]) = 3}

FirstCompleteDate(r) == r[Sections[Min(CompleteSections(r))]]["date-parts"][1]

\* s is the part of t before its first ch (all of t when there is none)
IsPartBefore(s, t, ch) ==
    /\ Len(s) <= Len(t) /\ s = SubSeq(t, 1, Len(s))
    /\ \A i \in DOMAIN s : s[i] # ch
    /\ Len(s) < Len(t) => t[Len(s) + 1] = ch

\* C7: a returned publishing date of a Crossref record is the date of the first
\* section, in the order published, published-print, published-online, posted,
\* created, whose first date-parts array has 3 parts, as YYYY-MM-DD with month and
\* day padded to two digits, and 'unknown' when there is none; of a DataCite
\* record it is the part of 'registered' before 'T', and 'unknown' without it.
C7_PublishingDate ==
    (call.fn = "get_publishing_date" /\ out.raised = "none") =>
        /\ ~out.isNone
        /\ IF Has(rec, "DOI")
           THEN IF CompleteSections(rec) = {} THEN out.value = S_unknown
                ELSE IsIsoDate(out.value, FirstCompleteDate(rec))
           ELSE IF Has(rec, "registered") THEN IsPartBefore(out.value, rec.registered, "T")
                ELSE out.value = S_unknown

C7_Witness ==
    /\ call.fn = "get_publishing_date" /\ out.raised = "none" /\ Has(rec, "DOI")
    /\ Has(rec, "published") /\ Has(rec.published, "date-parts")
    /\ CompleteSections(rec) # {} /\ Min(CompleteSections(rec)) = 3
    /\ out.value[6] = "0"

\* the venue as the claim describes it: the first available of
\* short-container-title[0], container-title[0], the institution name and the
\* DOI-based special cases (a sequence of 0 or 1 strings)
ClaimedVenue(r) ==
    LET inst == IF ~Has(r, "institution") THEN <<>>
                ELSE IF IsList(r.institution)
                     THEN IF Len(r.institution.list) > 0 /\ Has(r.institution.list[1], "name")
                          THEN <<r.institution.list[1].name>> ELSE <<>>
                     ELSE IF Has(r.institution.dict, "name")
                          THEN <<r.institution.dict.name>> ELSE <<>>
        special == IF Contains(r.DOI, S_elife) /\ Has(r, "subtype") /\ r.subtype = S_preprint
                   THEN <<S_eLife>>
                   ELSE IF Contains(r.DOI, S_osfio) THEN <<S_osfio>>
                   ELSE IF Contains(r.DOI, S_peerj) THEN <<S_PeerJ>>
                   ELSE IF Contains(r.DOI, S_protocolsio) THEN <<S_protocolsio>>
                   ELSE <<>>
        candidates == (IF NonEmptyList(r, "short-container-title")
                       THEN <<r["short-container-title"][1]>> ELSE <<>>)
                      \o (IF NonEmptyList(r, "container-title")
                          THEN <<r["container-title"][1]>> ELSE <<>>)
                      \o (IF Has(r, "institution") THEN inst ELSE special)
    IN  SubSeq(candidates, 1, IF Len(candidates) > 0 THEN 1 ELSE 0)

\* the year of the publishing date (a sequence of 0 or 1 strings)
ClaimedYear(r) ==
    IF Has(r, "DOI")
    THEN IF CompleteSections(r) = {} THEN <<>> ELSE <<Str(FirstCompleteDate(r)[1])>>
    ELSE IF Has(r, "registered") THEN <<SubSeq(r.registered, 1, 4)>> ELSE <<>>

DateMissing(r) == Len(ClaimedYear(r)) = 0

VenueMissing(r) ==
    IF Has(r, "DOI") THEN Len(ClaimedVenue(r)) = 0
    ELSE ~Has(r, "publisher") \/ Len(r.publisher) = 0

TitleMissing(r) ==
    IF Has(r, "DOI") THEN ~Has(r, "title") \/ Len(r.title) = 0 \/ Len(r.title[1]) = 0
    ELSE ~Has(r, "titles") \/ Len(r.titles) = 0 \/ ~Has(r.titles[1], "title")

\* C8 (as claimed): on a record whose date, venue or title data is missing, empty
\* or incomplete, get_publishing_date returns 'unknown', get_journal returns None
\* and get_title returns 'No title'; none of them raises.
C8_Fallbacks ==
    /\ (call.fn = "get_publishing_date" /\ DateMissing(rec)) => out = Ret(S_unknown)
    /\ (call.fn = "get_journal" /\ (VenueMissing(rec) \/ DateMissing(rec))) => out = RetNone
    /\ (call.fn = "get_title" /\ TitleMissing(rec)) => out = Ret(S_NoTitle)

\* C9: a returned journal of a Crossref record is venue + '. ' + year, followed
\* when full by '; ' + volume if there is a volume and then ': ' + page, or ': ' +
\* the last '/'-segment of the DOI without a page; it is None exactly when there
\* is no venue or no publishing date.  Of a DataCite record it is
\* publisher + '. ' + year, or None.
C9_Journal ==
    (call.fn = "get_journal" /\ out.raised = "none") =>
        IF VenueMissing(rec) \/ DateMissing(rec) THEN out.isNone
        ELSE /\ ~out.isNone
             /\ out.value =
                   (IF Has(rec, "DOI") THEN ClaimedVenue(rec)[1] ELSE rec.publisher)
                   \o <<".", " ">> \o ClaimedYear(rec)[1]
                   \o (IF Has(rec, "DOI") /\ call.full
                       THEN (IF Has(rec, "volume") THEN <<";", " ">> \o rec.volume ELSE <<>>)
                            \o <<":", " ">>
                            \o (IF Has(rec, "page") THEN rec.page
                                ELSE LET slashes == {i \in DOMAIN rec.DOI : rec.DOI[i] = "/"}
                                         from == IF slashes = {} THEN 0
                                                 ELSE CHOOSE m \in slashes :
                                                          \A n \in slashes : n <= m
                                     IN  SubSeq(rec.DOI, from + 1, Len(rec.DOI)))
                       ELSE <<>>)

C9_Witness ==
    /\ call.fn = "get_journal" /\ call.full /\ out.raised = "none" /\ ~out.isNone
    /\ Has(rec, "institution") /\ Has(rec, "volume") /\ ~Has(rec, "page")
    /\ rec.DOI = S_DoiOsf

-----------------------------------------------------------------------------
(* Properties of the name-variant expansion                                *)

NoDuplicates(list) == \A i, j \in DOMAIN list : i # j => list[i] # list[j]

IsPrefix(a, b) == Len(a) <= Len(b) /\ a = SubSeq(b, 1, Len(a))

\* C10: an expansion of a duplicate-free given-name list yields a duplicate-free
\* list that keeps the entries it had, in their order, in front; a second
\* expansion with the same directory record adds nothing.
C10_ExpansionIdempotent ==
    /\ runs >= 1 => /\ NoDuplicates(orec.given)
                    /\ IsPrefix(before.given, orec.given)
                    /\ IsPrefix(before.family, orec.family)
    /\ runs >= 2 => orec = before

C10_Witness ==
    /\ runs = 2 /\ idrec # <<>> /\ Has(idrec, "nameMiddle")
    /\ Len(orec.given) > MaxGiven + 2
    /\ \E i \in DOMAIN orec.given : EndsJoinedInitials(orec.given[i])
    /\ \E i \in DOMAIN orec.given : EndsMiddleInitial(orec.given[i])

-----------------------------------------------------------------------------
(* Records with author lists                                               *)

MaxAuthors == 2     \* entries of an author, editor or creators list

S_GilWu == <<"G", "i", "l", " ", "W", "u">>
S_TeamCo == <<"T", "e", "a", "m", " ", "C", "o", ".">>
S_first == <<"f", "i", "r", "s", "t">>
S_additional == <<"a", "d", "d", "i", "t", "i", "o", "n", "a", "l">>
S_OrcidScheme == <<"O", "R", "C", "I", "D">>
S_OtherScheme == <<"I", "S", "N", "I">>
S_OtherUrl == <<"https:", "", "isni.org", "I9">>

AuthorShapes == {"full", "plain", "marked", "team", "empty", "givenonly", "blank"}

\* The author entry of a shape, in a Crossref (given / family / ORCID /
\* sequence / affiliation of dicts) or a DataCite record (givenName /
\* familyName / nameIdentifiers / affiliation of strings)
Author(shape, datacite) ==
    LET g == IF datacite THEN "givenName" ELSE "given"
        f == IF datacite THEN "familyName" ELSE "family"
        Seq1(d, v) == IF datacite THEN d ELSE Put(d, "sequence", v)
    IN  CASE shape = "full" ->
               LET d == Seq1((g :> S_GilWu) @@ (f :> S_Lee), S_first)
               IN  IF datacite
                   THEN d @@ ("nameIdentifiers" :>
                                << [nameIdentifier |-> S_OtherUrl,
                                    nameIdentifierScheme |-> S_OtherScheme],
                                   [nameIdentifier |-> S_OrcidUrl,
                                    nameIdentifierScheme |-> S_OrcidScheme] >>)
                          @@ ("affiliation" :> << S_JaneliaRC >>)
                   ELSE d @@ ("ORCID" :> S_OrcidUrl)
                          @@ ("affiliation" :> << [name |-> S_JaneliaRC] >>)
          [] shape = "plain" -> Seq1((g :> S_Ann) @@ (f :> S_Roe), S_additional)
          [] shape = "marked" -> Seq1((f :> S_Lee), S_first)
          [] shape = "team" -> ("name" :> S_TeamCo)
          [] shape = "empty" -> <<>>
          [] shape = "givenonly" -> (g :> S_Ann)
          [] shape = "blank" -> (g :> S_Empty) @@ (f :> S_Lee)

AuthorLists(datacite) ==
    UNION { {[i \in 1..n |-> Author(sh[i], datacite)] : sh \in [1..n -> AuthorShapes]}
            : n \in 0..MaxAuthors }

\* Crossref records carry 'author', 'editor', both or neither; DataCite
\* records carry 'creators', 'editor' or neither
AuthorRecords ==
    LET a == [DOI |-> S_DoiPlain]
        b == [publisher |-> S_Publisher]
        editors == << ("family" :> S_Roe) @@ ("given" :> S_Bob) >>
    IN  {a, b, Put(a, "name", S_TeamCo)}
        \cup {Put(a, "author", l) : l \in AuthorLists(FALSE)}
        \cup {Put(a, "editor", l) : l \in AuthorLists(FALSE)}
        \cup {Put(Put(a, "author", l), "editor", editors) : l \in AuthorLists(FALSE)}
        \cup {Put(b, "creators", l) : l \in AuthorLists(TRUE)}
        \cup {Put(b, "editor", l) : l \in AuthorLists(TRUE)}

-----------------------------------------------------------------------------
(* get_author_list (orcid = False, project_map = None)                     *)

S_CommaSpace == <<",", " ">>
S_Amp == <<" ", "&", " ">>
S_Dot == <<".">>

\* the index of the first blank of s, Len(s) + 1 when there is none
FirstBlank(s) ==
    IF \E i \in DOMAIN s : s[i] = " "
    THEN Min({i \in DOMAIN s : s[i] = " "}) ELSE Len(s) + 1

\* str.split(): the blank-separated, non-empty tokens
RECURSIVE Tokens(_)
Tokens(s) ==
    IF Len(s) = 0 THEN <<>>
    ELSE IF Head(s) = " " THEN Tokens(Tail(s))
    ELSE <<SubSeq(s, 1, FirstBlank(s) - 1)>> \o Tokens(SubSeq(s, FirstBlank(s), Len(s)))

\* sep.join(list)
RECURSIVE Join(_, _)
Join(list, sep) ==
    IF Len(list) = 0 THEN <<>>
    ELSE IF Len(list) = 1 THEN list[1]
    ELSE list[1] \o sep \o Join(Tail(list), sep)

\* punc after every initial in the flylight style
InitialPunc(style) == IF style = "flylight" THEN S_Dot ELSE <<>>

\* the first letter of every token of the given name, with punc
Initials(name, style) ==
    [i \in DOMAIN Tokens(name) |-> <<Tokens(name)[i][1]>> \o InitialPunc(style)]

\* One pass of the loop over the authors: the text of an entry, a skipped
\* entry, or the KeyError of auth[family]
EntryText(auth, datacite, style) ==
    LET g == IF datacite THEN "givenName" ELSE "given"
        f == IF datacite THEN "familyName" ELSE "family"
    IN  IF Has(auth, g)
        THEN IF ~Has(auth, f) THEN [kind |-> "raise", text |-> <<>>]
             ELSE [kind |-> "text",
                   text |-> Join(<<auth[f],
                                   Join(Initials(auth[g], style),
                                        IF style = "flylight" THEN <<" ">> ELSE <<>>)>>,
                                 S_CommaSpace)]
        ELSE IF Has(auth, f) THEN [kind |-> "text", text |-> auth[f]]
        ELSE IF Has(auth, "name") THEN [kind |-> "text", text |-> auth.name]
        ELSE [kind |-> "skip", text |-> <<>>]

\* auth_list after the loop over author[i..], or the exception it raised
RECURSIVE EntryLoop(_, _, _, _, _)
EntryLoop(author, i, datacite, style, acc) ==
    IF i > Len(author) THEN [raised |-> "none", list |-> acc]
    ELSE LET e == EntryText(author[i], datacite, style)
         IN  IF e.kind = "raise" THEN [raised |-> "KeyError", list |-> acc]
             ELSE EntryLoop(author, i + 1, datacite, style,
                            IF e.kind = "skip" THEN acc ELSE Append(acc, e.text))

\* the list field that is processed: 'editor' stands in for a missing
\* 'author' / 'creators'
ListField(r) ==
    LET field == IF Has(r, "DOI") THEN "author" ELSE "creators"
    IN  IF ~Has(r, field) /\ Has(r, "editor") THEN "editor" ELSE field

\* faulty variant: the dis style joins the last entry with '; '
LastSeparator_Semicolon(style) == IF style = "flylight" THEN S_Amp ELSE <<";", " ">>

LastSeparator(style) == IF style = "flylight" THEN S_Amp ELSE S_CommaSpace

\* the text built from a non-empty auth_list
ListText(list, style) ==
    LET last == list[Len(list)]
        rest == SubSeq(list, 1, Len(list) - 1)
    IN  IF Len(rest) = 0 THEN Ret(last)
        ELSE IF Len(last) = 0 THEN Raise("IndexError")
        ELSE Ret(Join(rest, S_CommaSpace) \o LastSeparator(style)
                 \o (IF last[Len(last)] # "." THEN last \o S_Dot ELSE last))

AuthorList(r, style, returntype) ==
    IF ~Has(r, ListField(r)) THEN RetNone
    ELSE LET loop == EntryLoop(r[ListField(r)], 1, ~Has(r, "DOI"), style, <<>>)
         IN  IF loop.raised # "none" THEN Raise(loop.raised)
             ELSE IF Len(loop.list) = 0 THEN RetNone
             ELSE IF returntype = "list" THEN Ret(loop.list)
             ELSE ListText(loop.list, style)

Styles == {"dis", "flylight"}
ReturnTypes == {"text", "list"}

GetAuthorList ==
    \E style \in Styles, returntype \in ReturnTypes :
        /\ seen' = Put(seen, <<style, returntype>>, AuthorList(rec, style, returntype))
        /\ UNCHANGED <<rec, call, out, resolveVars, nameVars, citeVars, affilVars, storeVars>>

-----------------------------------------------------------------------------
(* get_author_details without a collection                                 *)

\* the first name identifier of the ORCID scheme, as a list of 0 or 1
OrcidIdentifier(nids) ==
    LET hits == {i \in DOMAIN nids : /\ Has(nids[i], "nameIdentifier")
                                     /\ Has(nids[i], "nameIdentifierScheme")
                                     /\ nids[i].nameIdentifierScheme = S_OrcidScheme}
    IN  IF hits = {} THEN <<>> ELSE <<nids[Min(hits)].nameIdentifier>>

\* _set_paper_orcid
SetPaperOrcidOf(auth, datacite, payload) ==
    IF datacite
    THEN IF Has(auth, "nameIdentifiers") /\ Len(OrcidIdentifier(auth.nameIdentifiers)) > 0
         THEN LET id == LastSegment(OrcidIdentifier(auth.nameIdentifiers)[1])
              IN  Put(Put(payload, "paper_orcid", id), "orcid", id)
         ELSE payload
    ELSE SetPaperOrcid(auth, payload)

\* a DataCite creator without a given name whose 'name' holds a blank is
\* split into given and family
SplitsName(auth, datacite) ==
    /\ datacite
    /\ (~Has(auth, "givenName") \/ Len(auth.givenName) = 0)
    /\ Has(auth, "name") /\ Contains(auth.name, <<" ">>)

NamesOf(auth, datacite, payload) ==
    LET g == IF datacite THEN "givenName" ELSE "given"
        f == IF datacite THEN "familyName" ELSE "family"
    IN  IF SplitsName(auth, datacite)
        THEN Put(Put(payload, "given", SplitFirst(auth.name, " ")),
                 "family", SplitLast(auth.name, " "))
        ELSE LET p1 == IF Has(auth, f) THEN Put(payload, "family", auth[f])
                       ELSE IF Has(auth, "name") THEN Put(payload, "name", auth.name)
                       ELSE payload
             IN  Put(p1, "given", IF Has(auth, g) THEN auth[g] ELSE S_Empty)

\* faulty variant: every entry is marked as the last one
IsLast_Always(seq, n) == TRUE

IsLast(seq, n) == seq = n

IsFirst(auth, seq) == seq = 1 \/ (Has(auth, "sequence") /\ auth.sequence = S_first)

AffiliationsOf(auth, datacite) ==
    IF ~Has(auth, "affiliation") THEN <<>>
    ELSE IF datacite THEN auth.affiliation
    ELSE AffiliationNames(auth.affiliation)

\* the payload of the seq-th of n entries
AuthorPayload(auth, datacite, seq, n) ==
    LET p0 == SetPaperOrcidOf(auth, datacite, <<>>)
        p1 == NamesOf(auth, datacite, p0)
        p2 == IF IsFirst(auth, seq) THEN Put(p1, "is_first", TRUE) ELSE p1
        p3 == IF IsLast(seq, n) THEN Put(p2, "is_last", TRUE) ELSE p2
        p4 == IF Has(auth, "ORCID") THEN Put(p3, "orcid", LastSegment(auth.ORCID)) ELSE p3
        affs == AffiliationsOf(auth, datacite)
    IN  IF Len(affs) > 0 THEN Put(p4, "affiliations", affs) ELSE p4

AuthorDetails(r) ==
    LET datacite == ~Has(r, "DOI")
        field == IF datacite THEN "creators" ELSE "author"
    IN  IF ~Has(r, field) /\ ~Has(r, "name") THEN RetNone
        ELSE IF ~Has(r, field) THEN Raise("KeyError")
        ELSE IF Len(r[field]) = 0 THEN RetNone
        ELSE Ret([i \in DOMAIN r[field] |->
                     AuthorPayload(r[field][i], datacite, i, Len(r[field]))])

GetAuthorDetails ==
    /\ call' = [fn |-> "get_author_details", full |-> TRUE]
    /\ out' = AuthorDetails(rec)
    /\ UNCHANGED <<rec, seen, resolveVars, nameVars, citeVars, affilVars, storeVars>>

InitAuthors ==
    /\ rec \in AuthorRecords
    /\ call = NoCall
    /\ out = RetNone
    /\ seen = <<>>
    /\ coll = <<>> /\ entry = <<>> /\ result = NotCalled /\ prev = NotCalled /\ calls = 0
    /\ orec = <<>> /\ idrec = <<>> /\ before = <<>> /\ runs = 0
    /\ IdleCite /\ IdleAffil /\ IdleStore

NextAuthors == GetAuthorList \/ GetAuthorDetails

SpecAuthors == InitAuthors /\ [][NextAuthors]_vars

-----------------------------------------------------------------------------
(* Properties of the author list                                           *)

\* the number of pieces of s.split(', ')
RECURSIVE PieceCount(_)
PieceCount(s) ==
    IF Len(s) < 2 THEN 1
    ELSE IF SubSeq(s, 1, 2) = S_CommaSpace THEN 1 + PieceCount(SubSeq(s, 3, Len(s)))
    ELSE PieceCount(Tail(s))

RECURSIVE SumPieces(_)
SumPieces(list) ==
    IF Len(list) = 0 THEN 0 ELSE PieceCount(Head(list)) + SumPieces(Tail(list))

\* both get_author_list(rec, style=st) and get_author_list(rec, style=st,
\* returntype='list') were called and returned a value
BothListed(st) ==
    /\ Has(seen, <<st, "text">>) /\ Has(seen, <<st, "list">>)
    /\ seen[<<st, "text">>].raised = "none" /\ ~seen[<<st, "text">>].isNone
    /\ seen[<<st, "list">>].raised = "none" /\ ~seen[<<st, "list">>].isNone

TextOf(st) == seen[<<st, "text">>].value
ListOf(st) == seen[<<st, "list">>].value

\* C11 (as claimed): splitting the 'dis' text of a record on ', ' gives as many
\* pieces as the list form has entries.
C11_RoundTripAsClaimed ==
    BothListed("dis") => PieceCount(TextOf("dis")) = Len(ListOf("dis"))

\* C11 (amended): splitting the 'dis' text on ', ' gives one piece per entry of
\* the list form plus one for every ', ' inside an entry (an author with a given
\* name is shown as 'Family, Initials'), so the two numbers agree exactly when
\* no entry holds a ', '.
C11_RoundTripAmended ==
    BothListed("dis") =>
        /\ PieceCount(TextOf("dis")) = SumPieces(ListOf("dis"))
        /\ (PieceCount(TextOf("dis")) = Len(ListOf("dis")))
              <=> (\A i \in DOMAIN ListOf("dis") : ~Contains(ListOf("dis")[i], S_CommaSpace))

C11_Witness ==
    /\ BothListed("dis")
    /\ Len(ListOf("dis")) = 2 /\ PieceCount(TextOf("dis")) = 4

\* the authors of rec all carry a given and a family name
AllNamed ==
    /\ Has(rec, ListField(rec))
    /\ Len(rec[ListField(rec)]) >= 1
    /\ \A i \in DOMAIN rec[ListField(rec)] :
          LET auth == rec[ListField(rec)][i]
          IN  IF Has(rec, "DOI") THEN Has(auth, "given") /\ Has(auth, "family")
              ELSE Has(auth, "givenName") /\ Has(auth, "familyName")

\* the entry of an author as the text form is described: 'Family, ' and the
\* first letters of the given-name tokens
ClaimedEntry(auth, st) ==
    LET g == IF Has(rec, "DOI") THEN auth.given ELSE auth.givenName
        f == IF Has(rec, "DOI") THEN auth.family ELSE auth.familyName
        letters == [i \in DOMAIN Tokens(g) |->
                       IF st = "flylight" THEN <<Tokens(g)[i][1], ".">>
                       ELSE <<Tokens(g)[i][1]>>]
    IN  f \o S_CommaSpace \o Join(letters, IF st = "flylight" THEN <<" ">> ELSE <<>>)

WithPeriod(e) == IF Len(e) > 0 /\ e[Len(e)] = "." THEN e ELSE e \o S_Dot

ClaimedText(st) ==
    LET author == rec[ListField(rec)]
        entries == [i \in DOMAIN author |-> ClaimedEntry(author[i], st)]
        n == Len(entries)
    IN  IF n = 1 THEN WithPeriod(entries[1])
        ELSE Join(SubSeq(entries, 1, n - 1), S_CommaSpace)
             \o (IF st = "flylight" THEN S_Amp ELSE <<";", " ">>)
             \o WithPeriod(entries[n])

\* C12 (as claimed): the text form of a record whose n >= 1 authors have given
\* and family names ends with a period; the entries 'Family, Initials' are joined
\* with ', ' and the last one with '; ' (dis) or ' & ' (flylight).
C12_TextForm ==
    \A st \in Styles :
        (AllNamed /\ Has(seen, <<st, "text">>)) =>
            seen[<<st, "text">>] = Ret(ClaimedText(st))

-----------------------------------------------------------------------------
(* Properties of get_author_details                                        *)

DetailsReturned ==
    call.fn = "get_author_details" /\ out.raised = "none" /\ ~out.isNone

\* the list get_author_details reads: 'author' or 'creators'
DetailField == IF Has(rec, "DOI") THEN "author" ELSE "creators"

\* payload p shows the names of entry auth
SameAuthor(p, auth) ==
    LET g == IF Has(rec, "DOI") THEN "given" ELSE "givenName"
        f == IF Has(rec, "DOI") THEN "family" ELSE "familyName"
    IN  /\ Has(auth, f) => (Has(p, "family") /\ p.family = auth[f])
        /\ (Has(auth, g) /\ Len(auth[g]) > 0) => p.given = auth[g]
        /\ (~Has(auth, f) /\ Has(auth, "name") /\ Has(rec, "DOI")) => p.name = auth.name

\* the ORCID an entry carries, as a list of 0 or 1 identifiers
EntryOrcid(auth) ==
    IF Has(rec, "DOI")
    THEN IF Has(auth, "ORCID") THEN <<auth.ORCID>> ELSE <<>>
    ELSE IF Has(auth, "nameIdentifiers")
         THEN LET hits == {i \in DOMAIN auth.nameIdentifiers :
                             auth.nameIdentifiers[i].nameIdentifierScheme = S_OrcidScheme}
              IN  IF hits = {} THEN <<>>
                  ELSE <<auth.nameIdentifiers[Min(hits)].nameIdentifier>>
         ELSE <<>>

\* C13: get_author_details returns one payload per author entry, in record
\* order; is_first is set exactly on the first entry and the entries marked
\* 'first', is_last exactly on the final entry, and paper_orcid and orcid are the
\* last '/'-segment of the entry's ORCID.
C13_AuthorDetails ==
    DetailsReturned =>
        LET author == rec[DetailField]
            n == Len(author)
        IN  /\ Len(out.value) = n
            /\ \A i \in 1..n :
                  LET p == out.value[i]
                      auth == author[i]
                      id == EntryOrcid(auth)
                  IN  /\ SameAuthor(p, auth)
                      /\ Has(p, "is_first")
                            <=> (i = 1 \/ (Has(auth, "sequence") /\ auth.sequence = S_first))
                      /\ Has(p, "is_first") => p.is_first
                      /\ Has(p, "is_last") <=> (i = n)
                      /\ Has(p, "is_last") => p.is_last
                      /\ Len(id) > 0 =>
                            /\ Has(p, "paper_orcid") /\ Has(p, "orcid")
                            /\ p.paper_orcid = id[1][Len(id[1])]
                            /\ p.orcid = id[1][Len(id[1])]

C13_Witness ==
    /\ DetailsReturned
    /\ Len(out.value) = 2
    /\ Has(out.value[1], "orcid") /\ ~Has(out.value[1], "is_last")
    /\ Has(out.value[2], "is_first") /\ Has(out.value[2], "is_last")

\* what the two functions return for a Crossref record with editors and no
\* authors: entries built from the editors
EditorsOnly == Has(rec, "DOI") /\ ~Has(rec, "author") /\ Has(rec, "editor")

NoLists == ~Has(rec, "author") /\ ~Has(rec, "creators") /\ ~Has(rec, "editor")

\* C14 (as claimed): of a Crossref record with an 'editor' list and no 'author'
\* list, get_author_details and get_author_list return the entries built from
\* the editors; of a record with neither list both return None without raising.
C14_EditorFallback ==
    /\ (call.fn = "get_author_details" /\ EditorsOnly) =>
          out = (IF Len(rec.editor) = 0 THEN RetNone
                 ELSE Ret([i \in DOMAIN rec.editor |->
                             AuthorPayload(rec.editor[i], FALSE, i, Len(rec.editor))]))
    /\ (call.fn = "get_author_details" /\ NoLists) => out = RetNone
    /\ \A k \in DOMAIN seen :
          /\ EditorsOnly =>
                seen[k] = AuthorList([DOI |-> rec.DOI, author |-> rec.editor], k[1], k[2])
          /\ NoLists => seen[k] = RetNone

-----------------------------------------------------------------------------
(* is_datacite                                                             *)

UpperChars == <<"A", "B", "C", "D", "E", "F", "G", "H", "I", "J", "K", "L", "M", "N", "O", "P", "Q", "R", "S", "T", "U", "V", "W", "X", "Y", "Z">>
LowerChars == <<"a", "b", "c", "d", "e", "f", "g", "h", "i", "j", "k", "l", "m", "n", "o", "p", "q", "r", "s", "t", "u", "v", "w", "x", "y", "z">>

\* str.lower()
Lower(s) ==
    [i \in DOMAIN s |->
        IF \E k \in DOMAIN UpperChars : UpperChars[k] = s[i]
        THEN LowerChars[CHOOSE k \in DOMAIN UpperChars : UpperChars[k] = s[i]]
        ELSE s[i]]

S_mJanelia == <<"/", "j", "a", "n", "e", "l", "i", "a">>
S_mArxiv == <<"/", "a", "r", "x", "i", "v">>
S_mD1 == <<"/", "d", "1", ".">>
S_mDryad == <<"/", "d", "r", "y", "a", "d">>
S_mMicropub == <<"/", "m", "i", "c", "r", "o", "p", "u", "b", ".", "b", "i", "o", "l", "o", "g", "y">>
S_mZenodo == <<"/", "z", "e", "n", "o", "d", "o">>
S_mFigshare == <<"f", "i", "g", "s", "h", "a", "r", "e">>

\* faulty variant: the DOI is searched as it is written
IsDatacite_CaseSensitive(d) ==
    \/ Contains(d, S_mJanelia) \/ Contains(d, S_mArxiv) \/ Contains(d, S_mD1)
    \/ Contains(d, S_mDryad) \/ Contains(d, S_mMicropub)
    \/ Contains(d, S_mZenodo) \/ Contains(d, S_mFigshare)

IsDatacite(d) ==
    LET doilc == Lower(d)
    IN  \/ Contains(doilc, S_mJanelia) \/ Contains(doilc, S_mArxiv)
        \/ Contains(doilc, S_mD1) \/ Contains(doilc, S_mDryad)
        \/ Contains(doilc, S_mMicropub)
        \/ Contains(doilc, S_mZenodo) \/ Contains(doilc, S_mFigshare)

-----------------------------------------------------------------------------
(* short_citation                                                          *)

S_UnknownAuthor == <<"U", "n", "k", "n", "o", "w", "n", " ", "a", "u", "t", "h", "o", "r">>
S_EtAl == <<" ", "e", "t", " ", "a", "l", ".">>
S_PmidOpen == <<" ", "<", "a", " ", "h", "r", "e", "f", "=", "'", "h", "t", "t", "p", "s", ":", "/", "/", "p", "u", "b", "m", "e", "d", ".", "n", "c", "b", "i", ".", "n", "l", "m", ".", "n", "i", "h", ".", "g", "o", "v", "/">>
S_PmidId == <<"3", "9", "8", "5", "4", "2", "2", "3">>
S_PmidClose == <<"<", "/", "a", ">">>

\* the link appended for a PMID reply with status ok and a pmid in its first
\* record
PmidText(reply) ==
    IF /\ Len(reply) > 0
       /\ Has(reply[1], "status") /\ reply[1].status = "ok"
       /\ Has(reply[1].records[1], "pmid")
    THEN S_PmidOpen \o reply[1].records[1].pmid \o <<"'", ">">>
         \o reply[1].records[1].pmid \o S_PmidClose
    ELSE <<>>

\* the record and the author list short_citation takes from the registry's
\* reply: None, a KeyError, or both
Fetched(d, replies) ==
    IF IsDatacite(d)
    THEN IF Len(replies.reply) = 0 \/ ~Has(replies.reply[1], "data")
         THEN [kind |-> "none"]
         ELSE LET r == replies.reply[1].data.attributes
              IN  IF ~Has(r, "creators") THEN [kind |-> "KeyError"]
                  ELSE [kind |-> "ok", rec |-> r, authors |-> r.creators]
    ELSE IF Len(replies.reply) = 0 \/ ~Has(replies.reply[1], "message")
         THEN [kind |-> "none"]
         ELSE LET r == replies.reply[1].message
              IN  IF Has(r, "author") THEN [kind |-> "ok", rec |-> r, authors |-> r.author]
                  ELSE IF Has(r, "editor")
                       THEN [kind |-> "ok", rec |-> r, authors |-> r.editor]
                  ELSE [kind |-> "KeyError"]

\* jour and pdate after the 'expanded' block, or the exception raised in it
JournalAndDate(r, expanded, pdate) ==
    IF ~expanded THEN [raised |-> "none", jour |-> <<>>, pdate |-> pdate]
    ELSE LET j == Journal(r, FALSE)
             t == Title(r)
         IN  IF j.raised # "none" THEN [raised |-> j.raised, jour |-> <<>>, pdate |-> pdate]
             ELSE LET jtext == IF j.isNone \/ Len(j.value) = 0 THEN <<>>
                               ELSE <<" ">> \o j.value \o S_Dot
                      date == IF j.isNone \/ Len(j.value) = 0 THEN pdate ELSE <<>>
                  IN  [raised |-> "none",
                       jour |-> IF Len(t.value) > 0 THEN <<" ">> \o t.value \o S_Dot \o jtext
                                ELSE jtext,
                       pdate |-> date]

\* the citation of a DataCite record
DataciteCitation(authors, tail) ==
    IF Len(authors) = 0 THEN Raise("IndexError")
    ELSE LET f == IF Has(authors[1], "familyName") THEN authors[1].familyName
                  ELSE IF Has(authors[1], "name") THEN authors[1].name
                  ELSE S_UnknownAuthor
         IN  IF Len(authors) > 1 THEN Ret(f \o S_EtAl \o tail)
             ELSE Ret(f \o S_Dot \o tail)

\* the citation of a Crossref record: the loop over the authors ends in its
\* first pass
CrossrefCitation(authors, tail) ==
    IF Len(authors) = 0 THEN RetNone
    ELSE IF ~Has(authors[1], "family") THEN RetNone
    ELSE IF ~Has(authors[1], "sequence") THEN Raise("KeyError")
    ELSE IF authors[1].sequence # S_first THEN RetNone
    ELSE IF Len(authors) > 1 THEN Ret(authors[1].family \o S_EtAl \o tail)
    ELSE Ret(authors[1].family \o S_Dot \o tail)

ShortCitation(d, replies, expanded) ==
    LET got == Fetched(d, replies)
    IN  IF got.kind = "none" THEN RetNone
        ELSE IF got.kind = "KeyError" THEN Raise("KeyError")
        ELSE LET date == PublishingDate(got.rec)
             IN  IF date.raised # "none" THEN Raise(date.raised)
                 ELSE LET jd == JournalAndDate(got.rec, expanded,
                                               <<" ">> \o SplitFirst(date.value, "-"))
                          tail == jd.jour \o jd.pdate \o PmidText(replies.pmid)
                      IN  IF jd.raised # "none" THEN Raise(jd.raised)
                          ELSE IF IsDatacite(d) THEN DataciteCitation(got.authors, tail)
                          ELSE CrossrefCitation(got.authors, tail)

\* the services queried: the registry, then (unless the reply was unusable or
\* an exception was raised before) the PMID service
Asked(d, replies) ==
    LET registry == IF IsDatacite(d) THEN "datacite" ELSE "crossref"
        got == Fetched(d, replies)
    IN  IF got.kind = "ok" /\ PublishingDate(got.rec).raised = "none"
        THEN <<registry, "pmid">> ELSE <<registry>>

\* DOIs with and without a DataCite marker, in lower, upper and mixed case
Dois ==
    { <<"1", "0", ".", "2", "5", "3", "7", "8", "/", "j", "a", "n", "e", "l", "i", "a", ".", "2", "3", "8", "1", "6", "2", "9", "5", ".", "v", "1">>,
      <<"1", "0", ".", "7", "5", "5", "4", "/", "e", "l", "i", "f", "e", ".", "9", "8", "4", "0", "5">>,
      <<"1", "0", ".", "2", "5", "3", "7", "8", "/", "J", "A", "N", "E", "L", "I", "A", ".", "1">>,
      <<"1", "0", ".", "5", "2", "8", "1", "/", "Z", "e", "n", "o", "d", "o", ".", "7">>,
      <<"1", "0", ".", "6", "0", "8", "4", "/", "m", "9", ".", "F", "i", "g", "S", "h", "a", "r", "e", ".", "1">>,
      <<"1", "0", ".", "4", "8", "5", "5", "0", "/", "a", "r", "X", "i", "v", ".", "2">>,
      <<"1", "0", ".", "5", "0", "6", "1", "/", "d", "r", "y", "a", "d", ".", "x">>,
      <<"1", "0", ".", "1", "7", "9", "1", "2", "/", "m", "i", "c", "r", "o", "p", "u", "b", ".", "b", "i", "o", "l", "o", "g", "y", ".", "1">>,
      <<"1", "0", ".", "1", "/", "d", "1", ".", "5">>,
      <<"1", "0", ".", "1", "/", "x", "j", "a", "n", "e", "l", "i", "a">>,
      <<"1", "0", ".", "1", "/", "d", "1", "x">>,
      <<"1", "0", ".", "1", "/", "e", "l", "i", "f", "e", ".", "F", "I", "G", "S", "H", "A", "R", "E">> }

S_Registered2 == <<"2", "0", "2", "3", "-", "0", "5", "-", "0", "1", "T", "1", "0", ":", "0", "0", ":", "0", "0", "Z">>

\* the author lists of the Crossref replies
CitedAuthors ==
    { << [family |-> S_Lee, sequence |-> S_first] >>,
      << [family |-> S_Lee, sequence |-> S_first],
         [family |-> S_Roe, sequence |-> S_additional] >>,
      << [name |-> S_TeamCo, sequence |-> S_first],
         [family |-> S_Roe, sequence |-> S_additional] >>,
      << [family |-> S_Lee] >>,
      << [family |-> S_Lee, sequence |-> S_additional],
         [family |-> S_Roe, sequence |-> S_first] >>,
      <<>> }

\* Crossref replies: None, a reply without 'message', and messages with an
\* author list, an editor list or neither, with or without a date and a venue
CrossrefReplies ==
    LET base == [DOI |-> S_DoiPlain, title |-> <<S_TitleText>>]
        dated == Put(base, "created", ("date-parts" :> << <<2024, 7, 30>> >>))
        full == Put(dated, "container-title", <<S_ContainerTitle>>)
        Msgs(m) == {m, Put(m, "editor", << [family |-> S_Roe, sequence |-> S_first] >>)}
                   \cup {Put(m, "author", a) : a \in CitedAuthors}
    IN  {<<>>, << [status |-> "failed"] >>}
        \cup {<< [message |-> m] >> : m \in Msgs(base) \cup Msgs(dated) \cup Msgs(full)}
        \cup {<< [message |-> Put(Put(base, "created", ("date-parts" :> <<>>)),
                                  "author", << [family |-> S_Lee, sequence |-> S_first] >>)] >>}

\* DataCite replies: None, a reply without 'data', and attributes with or
\* without creators and a registration date
DataciteReplies ==
    LET base == [publisher |-> S_Publisher, titles |-> << [title |-> S_TitleText] >>]
        dated == Put(base, "registered", S_Registered2)
        Attrs(m) == {m}
                    \cup {Put(m, "creators", c) :
                            c \in { << [familyName |-> S_Lee] >>,
                                    << [familyName |-> S_Lee], [familyName |-> S_Roe] >>,
                                    << [name |-> S_TeamCo] >>,
                                    << <<>>, [familyName |-> S_Roe] >>,
                                    <<>> }}
    IN  {<<>>, << [errors |-> "failed"] >>}
        \cup {<< [data |-> [attributes |-> m]] >> : m \in Attrs(base) \cup Attrs(dated)}

PmidReplies ==
    { <<>>,
      << [status |-> "error"] >>,
      << [status |-> "ok", records |-> << [pmid |-> S_PmidId] >>] >> }

CallIsDatacite ==
    /\ call' = [fn |-> "is_datacite", full |-> FALSE]
    /\ out' = Ret(IsDatacite(doi))
    /\ UNCHANGED <<rec, doi, remote, asked, seen, resolveVars, nameVars, affilVars, storeVars>>

CallShortCitation ==
    \E expanded \in BOOLEAN :
        /\ call' = [fn |-> "short_citation", full |-> expanded]
        /\ out' = ShortCitation(doi, remote, expanded)
        /\ asked' = Asked(doi, remote)
        /\ UNCHANGED <<rec, doi, remote, seen, resolveVars, nameVars, affilVars, storeVars>>

InitCite ==
    /\ doi \in Dois
    /\ remote \in [reply : CrossrefReplies \cup DataciteReplies, pmid : PmidReplies]
    /\ asked = <<>>
    /\ call = NoCall
    /\ out = RetNone
    /\ rec = <<>> /\ seen = <<>>
    /\ coll = <<>> /\ entry = <<>> /\ result = NotCalled /\ prev = NotCalled /\ calls = 0
    /\ orec = <<>> /\ idrec = <<>> /\ before = <<>> /\ runs = 0
    /\ IdleAffil /\ IdleStore

NextCite == CallIsDatacite \/ CallShortCitation

SpecCite == InitCite /\ [][NextCite]_vars

-----------------------------------------------------------------------------
(* Properties of short_citation and is_datacite                            *)

Cited == call.fn = "short_citation" /\ ~call.full

\* the registry's reply holds a record under the key the registry uses
Usable(key) == Len(remote.reply) > 0 /\ Has(remote.reply[1], key)

\* ' <year>' and the PMID link of a record whose date can be read
CitationTail(r) == <<" ">> \o SplitFirst(PublishingDate(r).value, "-") \o PmidText(remote.pmid)

\* the first of the authors (else editors) of a Crossref message, as a list
FirstAuthor(m) ==
    LET list == IF Has(m, "author") THEN m.author
                ELSE IF Has(m, "editor") THEN m.editor ELSE <<>>
    IN  IF Len(list) = 0 THEN <<>> ELSE <<list[1]>>

AuthorCount(m) ==
    IF Has(m, "author") THEN Len(m.author)
    ELSE IF Has(m, "editor") THEN Len(m.editor) ELSE 0

MarkedFirst(a) ==
    Len(a) = 1 /\ Has(a[1], "family") /\ Has(a[1], "sequence") /\ a[1].sequence = S_first

\* C15 (as claimed): short_citation(doi) returns 'F et al. <year>' or
\* 'F. <year>' for a Crossref record whose first author has family name F and the
\* marker 'first'; None, without raising, when the reply is unusable, when the
\* first author has no family name or no 'first' marker, or when the record has
\* neither authors nor editors; for a DataCite record F is the first creator's
\* familyName, else its name, else 'Unknown author'.
C15_ShortCitation ==
    Cited =>
        IF IsDatacite(doi)
        THEN IF ~Usable("data") THEN out = RetNone
             ELSE LET r == remote.reply[1].data.attributes
                  IN  (Has(r, "creators") /\ Len(r.creators) >= 1) =>
                         LET c == r.creators[1]
                             f == IF Has(c, "familyName") THEN c.familyName
                                  ELSE IF Has(c, "name") THEN c.name
                                  ELSE S_UnknownAuthor
                         IN  out = Ret(f \o (IF Len(r.creators) > 1 THEN S_EtAl ELSE S_Dot)
                                         \o CitationTail(r))
        ELSE IF ~Usable("message") THEN out = RetNone
             ELSE LET m == remote.reply[1].message
                  IN  PublishingDate(m).raised = "none" =>
                         IF MarkedFirst(FirstAuthor(m))
                         THEN out = Ret(FirstAuthor(m)[1].family
                                        \o (IF AuthorCount(m) > 1 THEN S_EtAl ELSE S_Dot)
                                        \o CitationTail(m))
                         ELSE out = RetNone

\* the DataCite markers
Markers ==
    {S_mJanelia, S_mArxiv, S_mD1, S_mDryad, S_mMicropub, S_mZenodo, S_mFigshare}

\* str.upper()
Upper(s) ==
    [i \in DOMAIN s |->
        IF \E k \in DOMAIN LowerChars : LowerChars[k] = s[i]
        THEN UpperChars[CHOOSE k \in DOMAIN LowerChars : LowerChars[k] = s[i]]
        ELSE s[i]]

HasMarker(d) == \E m \in Markers : Contains(Lower(d), m)

\* C19: is_datacite(doi) is true exactly when the lower-cased DOI contains a
\* DataCite marker, it gives the same for the DOI in upper and in lower case,
\* and short_citation queries DataCite exactly when is_datacite is true and
\* Crossref otherwise.
C19_IsDatacite ==
    /\ call.fn = "is_datacite" =>
          /\ out.value = HasMarker(doi)
          /\ out.value = IsDatacite(Upper(doi))
          /\ out.value = IsDatacite(Lower(doi))
    /\ call.fn = "short_citation" =>
          asked[1] = (IF HasMarker(doi) THEN "datacite" ELSE "crossref")

C19_Witness ==
    /\ call.fn = "is_datacite" /\ out.value = TRUE
    /\ ~IsDatacite_CaseSensitive(doi)

-----------------------------------------------------------------------------
(* is_janelia_author                                                       *)

JANELIA_ROR == <<"0", "1", "3", "s", "k", "6", "x", "8", "4">>
S_RorJanelia == <<"h", "t", "t", "p", "s", ":", "/", "/", "r", "o", "r", ".", "o", "r", "g", "/", "0", "1", "3", "s", "k", "6", "x", "8", "4">>
S_RorOther == <<"h", "t", "t", "p", "s", ":", "/", "/", "r", "o", "r", ".", "o", "r", "g", "/", "0", "0", "6", "w", "3", "4", "k", "9", "0">>
S_Project == <<"F", "l", "y", "L", "i", "g", "h", "t">>
S_LeeAnn == <<"L", "e", "e", ",", " ", "A", "n", "n">>

\* str.endswith
EndsWith(s, suffix) ==
    Len(s) >= Len(suffix) /\ SubSeq(s, Len(s) - Len(suffix) + 1, Len(s)) = suffix

\* an 'id' list of a Crossref affiliation holds the ROR of the organization
HasJaneliaRor(ids) ==
    \E i \in DOMAIN ids :
        /\ Has(ids[i], "id-type") /\ ids[i]["id-type"] = "ROR"
        /\ Has(ids[i], "id") /\ EndsWith(ids[i].id, <<"/">> \o JANELIA_ROR)

\* the affiliation entries (in list order) on which the loop returns
AffiliationHits(auth, datacite) ==
    {i \in DOMAIN auth.affiliation :
        IF datacite THEN Contains(auth.affiliation[i], S_Janelia)
        ELSE \/ (Has(auth.affiliation[i], "name")
                 /\ Contains(auth.affiliation[i].name, S_Janelia))
             \/ (Has(auth.affiliation[i], "id") /\ HasJaneliaRor(auth.affiliation[i].id))}

\* " ".join([auth[given], auth[family]]), or the KeyError of a missing name
FullName(auth, given, family) ==
    IF Has(auth, given) /\ Has(auth, family)
    THEN Ret(auth[given] \o <<" ">> \o auth[family])
    ELSE Raise("KeyError")

\* the affiliations are read before anything else
AffiliationFirst(auth) == Has(auth, "affiliation")

\* the project-name step: "skip" when it does not apply
ProjectStep(auth, datacite, family, given, project) ==
    LET lookup == IF Has(project, auth.name) THEN Ret(project[auth.name]) ELSE RetNone
    IN  IF datacite
        THEN IF Has(auth, family) /\ Has(auth, "name") /\ auth.name = auth[family]
             THEN [kind |-> "done", out |-> lookup]
             ELSE IF ~Has(auth, family) /\ ~Has(auth, given) /\ Has(auth, "name")
             THEN [kind |-> "done", out |-> lookup]
             ELSE [kind |-> "skip", out |-> RetNone]
        ELSE IF Has(auth, "name")
             THEN [kind |-> "done",
                   out |-> IF Has(project, auth.name) THEN lookup ELSE Raise("Exception")]
             ELSE [kind |-> "skip", out |-> RetNone]

\* the name step: the identity resolver decides
NameStep(auth, family, given, c) ==
    IF ~Has(auth, family) \/ ~Has(auth, given) THEN Raise("Exception")
    ELSE LET p0 == [family |-> auth[family], given |-> auth[given]]
             p1 == IF Has(auth, "ORCID") THEN Put(p0, "orcid", LastSegment(auth.ORCID))
                   ELSE p0
             res == AddSingleAuthorJrc(p1, c)
         IN  IF res.raised # "none" THEN Raise(res.raised)
             ELSE IF res.payload.in_database /\ ~res.payload.alumni
             THEN Ret(auth[given] \o <<" ">> \o auth[family])
             ELSE RetNone

IsJaneliaAuthor(auth, c, project) ==
    LET datacite == Has(auth, "familyName") \/ Has(auth, "nameIdentifiers")
        family == IF datacite THEN "familyName" ELSE "family"
        given == IF datacite THEN "givenName" ELSE "given"
        hits == IF AffiliationFirst(auth) THEN AffiliationHits(auth, datacite) ELSE {}
        step == ProjectStep(auth, datacite, family, given, project)
    IN  IF hits # {}
        THEN IF datacite
             THEN IF Has(auth, "name") THEN Ret(auth.name) ELSE Raise("KeyError")
             ELSE FullName(auth, given, family)
        ELSE IF step.kind = "done" THEN step.out
        ELSE NameStep(auth, family, given, c)

\* Crossref author entries: structured names, a display name only, or a family
\* name without a given name; an optional ORCID; affiliations by name or by ROR
CrossrefAuthors ==
    { LET a1 == CASE t.names = "both" -> [given |-> S_Ann, family |-> S_Lee]
                  [] t.names = "name" -> [name |-> S_TeamCo]
                  [] t.names = "family" -> [family |-> S_Lee]
          a2 == IF t.orcid THEN Put(a1, "ORCID", S_OrcidUrl) ELSE a1
      IN  CASE t.affiliation = "absent" -> a2
            [] t.affiliation = "other" -> Put(a2, "affiliation", << [name |-> S_HHMI] >>)
            [] t.affiliation = "own" ->
                 Put(a2, "affiliation", << [name |-> S_HHMI], [name |-> S_JaneliaRC] >>)
            [] t.affiliation = "ror" ->
                 Put(a2, "affiliation",
                     << [id |-> << ("id-type" :> "ROR") @@ ("id" :> S_RorJanelia) >>] >>)
            [] t.affiliation = "otherror" ->
                 Put(a2, "affiliation",
                     << [name |-> S_HHMI,
                         id |-> << ("id-type" :> "ROR") @@ ("id" :> S_RorOther) >>] >>)
      : t \in [names : {"both", "name", "family"}, orcid : BOOLEAN,
               affiliation : {"absent", "other", "own", "ror", "otherror"}] }

\* DataCite creators: structured names, a project (name = familyName), or a
\* display name with name identifiers; affiliations are strings
DataciteAuthors ==
    { LET a1 == CASE t.names = "both" ->
                       [givenName |-> S_Ann, familyName |-> S_Lee, name |-> S_LeeAnn]
                  [] t.names = "project" -> [familyName |-> S_TeamCo, name |-> S_TeamCo]
                  [] t.names = "name" -> [name |-> S_TeamCo, nameIdentifiers |-> <<>>]
      IN  CASE t.affiliation = "absent" -> a1
            [] t.affiliation = "other" -> Put(a1, "affiliation", << S_HHMI >>)
            [] t.affiliation = "own" -> Put(a1, "affiliation", << S_HHMI, S_JaneliaRC >>)
      : t \in [names : {"both", "project", "name"},
               affiliation : {"absent", "other", "own"}] }

ProjectMaps == { <<>>, (S_TeamCo :> S_Project) }

CallIsJaneliaAuthor ==
    /\ call' = [fn |-> "is_janelia_author", full |-> FALSE]
    /\ out' = IsJaneliaAuthor(entry, coll, pmap)
    /\ UNCHANGED <<rec, resolveVars, pmap, nameVars, listVars, citeVars, storeVars>>

InitAffil ==
    /\ entry \in CrossrefAuthors \cup DataciteAuthors
    /\ coll \in {c \in Registries : Len(c) <= 1}
    /\ pmap \in ProjectMaps
    /\ call = NoCall
    /\ out = RetNone
    /\ result = NotCalled /\ prev = NotCalled /\ calls = 0
    /\ rec = <<>>
    /\ orec = <<>> /\ idrec = <<>> /\ before = <<>> /\ runs = 0
    /\ IdleList /\ IdleCite /\ IdleStore

NextAffil == CallIsJaneliaAuthor

SpecAffil == InitAffil /\ [][NextAffil]_vars

-----------------------------------------------------------------------------
(* Properties of is_janelia_author                                         *)

Decided == call.fn = "is_janelia_author"

FromDatacite == Has(entry, "familyName") \/ Has(entry, "nameIdentifiers")

\* an affiliation of the entry names the organization or carries its ROR
AffiliationSignal ==
    Has(entry, "affiliation") /\ AffiliationHits(entry, FromDatacite) # {}

\* the entry stands for a project: it has a display name and no given name
NameOnly ==
    /\ Has(entry, "name")
    /\ ~Has(entry, IF FromDatacite THEN "givenName" ELSE "given")

\* the name the entry carries: its display name, or 'Given Family'
AuthorNames ==
    (IF Has(entry, "name") THEN {entry.name} ELSE {})
    \cup (IF Has(entry, "given") /\ Has(entry, "family")
          THEN {entry.given \o <<" ">> \o entry.family} ELSE {})

\* what the identity resolver says about the entry's names
EntryResolved ==
    LET family == IF FromDatacite THEN "familyName" ELSE "family"
        given == IF FromDatacite THEN "givenName" ELSE "given"
        p0 == [family |-> entry[family], given |-> entry[given]]
        p1 == IF Has(entry, "ORCID") THEN Put(p0, "orcid", LastSegment(entry.ORCID)) ELSE p0
    IN  AddSingleAuthorJrc(p1, coll)

\* C16: is_janelia_author decides in a fixed order: (1) an affiliation that
\* names the organization (or, for a Crossref entry, carries its ROR) makes
\* it return the author's name, whatever the project map and the registry
\* hold; (2) otherwise a name-only entry gets the project map's value, and a
\* name missing from the map raises for Crossref and gives None for
\* DataCite; (3) otherwise the identity resolver decides: 'Given Family'
\* exactly when the resolved author is in_database and not alumni, else None.
C16_DecisionOrder ==
    Decided =>
        IF AffiliationSignal
        THEN out.raised = "none" /\ ~out.isNone /\ out.value \in AuthorNames
        ELSE IF NameOnly
        THEN IF Has(pmap, entry.name) THEN out = Ret(pmap[entry.name])
             ELSE IF FromDatacite THEN out = RetNone
             ELSE out.raised # "none"
        ELSE /\ out.raised = "none"
             /\ EntryResolved.raised = "none"
             /\ IF EntryResolved.payload.in_database /\ ~EntryResolved.payload.alumni
                THEN out = Ret(entry[IF FromDatacite THEN "givenName" ELSE "given"]
                               \o <<" ">>
                               \o entry[IF FromDatacite THEN "familyName" ELSE "family"])
                ELSE out = RetNone

-----------------------------------------------------------------------------
(* The write and lookup operations on the collections                      *)

MaxOps == 1         \* operations performed in a row

S_title == <<"t", "i", "t", "l", "e">>
S_jrc_ == <<"j", "r", "c", "_">>
S_jrc_tag == S_jrc_ \o <<"t", "a", "g">>

\* str.startswith
StartsWith(s, prefix) == Len(s) >= Len(prefix) /\ SubSeq(s, 1, Len(prefix)) = prefix

\* find_one({field: val})
FindOneBy(c, field, val) ==
    FirstOf(c, {i \in DOMAIN c : Has(c[i], field) /\ c[i][field] = val})

\* update_one(filter, {"$set": set}) on the first document the filter selects
UpdateOne(c, idx, set) ==
    IF idx = {} THEN c ELSE [c EXCEPT ![Min(idx)] = set @@ c[Min(idx)]]

\* insert_one: the collection assigns the next _id
InsertOne(c, doc) == Append(c, Put(doc, "_id", Len(c) + 1))

\* JRC.call_people_by_id: the People service knows E1 and E3
People ==
    ("E1" :> [userIdO365 |-> "U1", nameFirst |-> S_Ann, nameLast |-> S_Lee]) @@
    ("E3" :> [userIdO365 |-> "U3", nameFirst |-> S_Bob, nameLast |-> S_Roe,
              supOrgName |-> "Team", managedTeams |-> << [supOrgName |-> "Lab3"] >>])

CallPeopleById(eid) == IF eid \in DOMAIN People THEN <<People[eid]>> ELSE <<>>

\* for aff in idrec['affiliations']: append a supOrgName not yet listed
RECURSIVE SupOrgNames(_, _)
SupOrgNames(list, affs) ==
    IF Len(affs) = 0 THEN list
    ELSE SupOrgNames(AppendNew(list, affs[1].supOrgName), Tail(affs))

\* for mtr in idrec['managedTeams']: append a non-empty supOrgName not yet listed
RECURSIVE ManagedTeams(_, _)
ManagedTeams(list, teams) ==
    IF Len(teams) = 0 THEN list
    ELSE ManagedTeams(IF Has(teams[1], "supOrgName") /\ Truthy(teams[1].supOrgName)
                      THEN AppendNew(list, teams[1].supOrgName) ELSE list,
                      Tail(teams))

\* the organization names in string order
TagOrder == <<"Lab1", "Lab2", "Lab3", "Lab4", "Team">>

Rank(t) == CHOOSE i \in DOMAIN TagOrder : TagOrder[i] = t

\* list.sort()
Sorted(list) ==
    CHOOSE s \in [DOMAIN list -> Range(list)] :
        /\ \A i, j \in DOMAIN s : i < j => Rank(s[i]) <= Rank(s[j])
        /\ \A t \in Range(list) :
               Cardinality({i \in DOMAIN s : s[i] = t})
                   = Cardinality({i \in DOMAIN list : list[i] = t})

GetAffiliations(id, r) ==
    LET listed(x) == IF Has(x, "affiliations") THEN x.affiliations ELSE <<>>
        r1 == IF Has(id, "affiliations") /\ Len(id.affiliations) > 0
              THEN Put(r, "affiliations", SupOrgNames(<<>>, id.affiliations)) ELSE r
        r2 == IF ~Has(r1, "group") /\ Has(id, "ccDescr") /\ Truthy(id.ccDescr)
              THEN Put(r1, "affiliations", AppendNew(listed(r1), id.ccDescr)) ELSE r1
        r3 == IF Has(id, "supOrgName") /\ Truthy(id.supOrgName)
                 /\ ~Has(r2, "affiliations")
              THEN Put(r2, "affiliations", <<id.supOrgName>>) ELSE r2
        r4 == IF Has(id, "managedTeams")
              THEN Put(r3, "affiliations", ManagedTeams(listed(r3), id.managedTeams))
              ELSE r3
    IN  IF Has(r4, "affiliations") THEN [r4 EXCEPT !.affiliations = Sorted(@)] ELSE r4

\* faulty variant: a failed precondition gives None
Refuse_Silent(store, e) == [out |-> RetNone, store |-> store]

\* a failed precondition: the error is raised, the collection is as it was
Refuse(store, e) == [out |-> Raise(e), store |-> store]

LookupModes == {"orcid", "employeeId"}

SingleOrcidLookup(val, c, lookup_by) ==
    IF lookup_by \notin LookupModes THEN Refuse(c, "ValueError")
    ELSE LET row == FindOneBy(c, lookup_by, val)
         IN  IF row = <<>> THEN [out |-> RetNone, store |-> c]
             ELSE LET cnt == Cardinality({i \in DOMAIN c : c[i].given = row[1].given
                                                          /\ c[i].family = row[1].family})
                  IN  [out |-> Ret(IF cnt > 1 THEN Put(row[1], "duplicate_name", TRUE)
                                   ELSE row[1]),
                       store |-> c]

\* 'inserted' is the time of the call
AddDoiToProcess(d, c, write, now) ==
    IF FindOneBy(c, "doi", d) # <<>> THEN Refuse(c, "ValueError")
    ELSE LET payload == [doi |-> d, inserted |-> now]
         IN  IF ~write THEN [out |-> Ret(payload), store |-> c]
             ELSE [out |-> Ret(Len(c) + 1), store |-> InsertOne(c, payload)]

AddOrcid(eid, c, given, family, orcid, write) ==
    IF FindOneBy(c, "employeeId", eid) # <<>> THEN Refuse(c, "ValueError")
    ELSE LET resp == CallPeopleById(eid)
         IN  IF resp = <<>> THEN Refuse(c, "ValueError")
             ELSE IF Truthy(orcid) /\ FindOneBy(c, "orcid", orcid) # <<>>
             THEN Refuse(c, "ValueError")
             ELSE LET p0 == [employeeId |-> eid, userIdO365 |-> resp[1].userIdO365]
                      p1 == IF Truthy(orcid) THEN Put(p0, "orcid", orcid) ELSE p0
                      p2 == GetAffiliations(resp[1], p1)
                      p3 == IF Len(given) = 0 \/ Len(family) = 0
                            THEN Put(Put(p2, "given", <<>>), "family", <<>>)
                            ELSE Put(Put(p2, "given", given), "family", family)
                      p4 == NameCombinations(resp[1], p3)
                  IN  IF ~write THEN [out |-> Ret(p4), store |-> c]
                      ELSE [out |-> Ret(Put(p4, "_id", Str(Len(c) + 1))),
                            store |-> InsertOne(c, p4)]

\* for name in names: append it to the list when it is not in the list
RECURSIVE AppendNames(_, _)
AppendNames(list, names) ==
    IF Len(names) = 0 THEN list
    ELSE AppendNames(AppendNew(list, names[1]), Tail(names))

\* the row read again after update_one
Reread(c, lookup_by, lookup) ==
    LET row == FindOneBy(c, lookup_by, lookup)
    IN  IF row = <<>> THEN RetNone ELSE Ret(row[1])

AddOrcidName(lookup_by, lookup, family, given, c, write) ==
    IF lookup_by \notin LookupModes THEN Refuse(c, "ValueError")
    ELSE LET row == FindOneBy(c, lookup_by, lookup)
         IN  IF row = <<>> THEN Refuse(c, "ValueError")
             ELSE LET f == AppendNames(row[1].family, family)
                      g == AppendNames(row[1].given, given)
                      changes == f # row[1].family \/ g # row[1].given
                  IN  IF ~changes \/ ~write THEN [out |-> RetNone, store |-> c]
                      ELSE LET c2 == UpdateOne(c, {i \in DOMAIN c : c[i]._id = row[1]._id},
                                               [family |-> f, given |-> g])
                           IN  [out |-> Reread(c2, lookup_by, lookup), store |-> c2]

UpdateExistingOrcid(lookup, add, c, lookup_by, write) ==
    IF lookup_by \notin LookupModes THEN Refuse(c, "ValueError")
    ELSE LET row == FindOneBy(c, lookup_by, lookup)
         IN  IF row = <<>> THEN Refuse(c, "ValueError")
             ELSE LET field == IF lookup_by = "orcid" THEN "employeeId" ELSE "orcid"
                  IN  IF ~write THEN [out |-> RetNone, store |-> c]
                      ELSE LET c2 == UpdateOne(c, {i \in DOMAIN c : c[i]._id = row[1]._id},
                                               (field :> add))
                           IN  [out |-> Reread(c2, lookup_by, lookup), store |-> c2]

\* a document of the dois collection: its DOI and its other fields by name
UpdateJrcFields(d, c, payload, write) ==
    IF d = "" \/ DOMAIN payload = {} THEN Refuse(c, "Exception")
    ELSE IF FindOneBy(c, "doi", d) = <<>> THEN Refuse(c, "Exception")
    ELSE IF \E key \in DOMAIN payload : ~StartsWith(key, S_jrc_) THEN Refuse(c, "Exception")
    ELSE IF ~write THEN [out |-> RetNone, store |-> c]
    ELSE LET idx == {i \in DOMAIN c : c[i].doi = d}
         IN  [out |-> Ret(1),
              store |-> [c EXCEPT ![Min(idx)].fields = payload @@ @]]

\* the payloads of the resolutions, or the first exception among them
Resolutions(res) ==
    LET failed == {i \in DOMAIN res : res[i].raised # "none"}
    IN  IF failed # {} THEN Raise(res[Min(failed)].raised)
        ELSE Ret([i \in DOMAIN res |-> res[i].payload])

\* the loop of get_author_details over the payloads `plain` holds, with a
\* collection: every payload goes through the resolver
ResolveAll(plain, c) ==
    IF plain.raised # "none" \/ plain.isNone THEN plain
    ELSE Resolutions([i \in DOMAIN plain.value |-> AddSingleAuthorJrc(plain.value[i], c)])

\* get_author_details(rec, coll)
AuthorDetailsIn(r, c) == ResolveAll(AuthorDetails(r), c)

S_jrc_author == S_jrc_ \o <<"a", "u", "t", "h", "o", "r">>

\* the employeeIds of the authors resolved as current members
JrcAuthor(authors) ==
    LET sel == SelectSeq(authors, LAMBDA a : a.janelian /\ Has(a, "employeeId")
                                              /\ Truthy(a.employeeId))
    IN  [i \in DOMAIN sel |-> sel[i].employeeId]

\* faulty variant: the tag is written in a dry run too
Writes_Always(write) == TRUE

\* if write:
Writes(write) == write

\* {"$set": {"jrc_author": list}}, or {"$unset": {"jrc_author": 1}} for no author
TagAuthors(fields, jrc_author) ==
    IF Len(jrc_author) > 0 THEN (S_jrc_author :> jrc_author) @@ fields
    ELSE [k \in DOMAIN fields \ {S_jrc_author} |-> fields[k]]

\* the tag of the work d from its resolved authors
TagWork(d, dc, authors, write) ==
    IF authors.raised # "none" THEN [out |-> authors, store |-> dc]
    ELSE IF authors.isNone THEN [out |-> Raise("TypeError"), store |-> dc]
    ELSE LET jrc_author == JrcAuthor(authors.value)
             idx == {i \in DOMAIN dc : dc[i].doi = d}
         IN  [out |-> Ret(jrc_author),
              store |-> IF Writes(write)
                        THEN [dc EXCEPT ![Min(idx)].fields = TagAuthors(@, jrc_author)]
                        ELSE dc]

\* the authors of the row find_one gives; get_author_details(None, coll) fails
AuthorsOfRow(row, oc) ==
    IF row = <<>> THEN Raise("TypeError") ELSE AuthorDetailsIn(row[1], oc)

UpdateJrcAuthorFromDoi(d, dc, oc, write) ==
    TagWork(d, dc, AuthorsOfRow(FindOneBy(dc, "doi", d), oc), write)

\* no identifier on two records
UniqueIds(c) ==
    \A i, j \in DOMAIN c : \A k \in {"orcid", "employeeId"} :
        (i # j /\ Has(c[i], k) /\ Has(c[j], k)) => c[i][k] # c[j][k]

\* the registries the operations start from: current staff of one name
StoreRegistries ==
    {c \in Registries :
        /\ UniqueIds(c)
        /\ \A i \in DOMAIN c : ~Has(c[i], "alumni") /\ c[i].given = <<S_Bob>>}

Lookups ==
    { [by |-> "employeeId", val |-> "E1"], [by |-> "employeeId", val |-> "E3"],
      [by |-> "orcid", val |-> "O1"], [by |-> "orcid", val |-> "O3"],
      [by |-> "name", val |-> "E1"] }

AddedIds(by) == IF by = "orcid" THEN {"E1", "E2"} ELSE {"O1", "O2"}

NameArgs ==
    { [family |-> <<>>, given |-> <<>>], [family |-> <<S_Roe>>, given |-> <<>>],
      [family |-> <<S_Lee>>, given |-> <<S_Ann, S_Bob>>] }

JrcPayloads ==
    { <<>>, (S_jrc_tag :> "Lab1"), (S_jrc_tag :> "Lab2") @@ (S_title :> S_NoTitle) }

CallSingleOrcidLookup ==
    /\ ops < MaxOps
    /\ \E l \in Lookups :
        /\ call' = [fn |-> "single_orcid_lookup", lookup_by |-> l.by, lookup |-> l.val]
        /\ out' = SingleOrcidLookup(l.val, coll, l.by).out
    /\ ops' = ops + 1
    /\ UNCHANGED <<coll, process, dcoll>>
    /\ UNCHANGED <<entry, result, prev, calls, rec, nameVars, listVars, citeVars, affilVars>>

CallAddDoiToProcess ==
    /\ ops < MaxOps
    /\ \E d \in {"D1", "D2"}, write \in BOOLEAN :
        LET r == AddDoiToProcess(d, process, write, ops)
        IN  /\ call' = [fn |-> "add_doi_to_process", doi |-> d, write |-> write]
            /\ out' = r.out
            /\ process' = r.store
    /\ ops' = ops + 1
    /\ UNCHANGED <<coll, dcoll>>
    /\ UNCHANGED <<entry, result, prev, calls, rec, nameVars, listVars, citeVars, affilVars>>

CallAddOrcid ==
    /\ ops < MaxOps
    /\ \E eid \in {"E1", "E3", "E4"}, orcid \in {"", "O1", "O3"}, write \in BOOLEAN,
          n \in {[given |-> <<>>, family |-> <<>>], [given |-> <<S_Bob>>, family |-> <<S_Roe>>]} :
        LET r == AddOrcid(eid, coll, n.given, n.family, orcid, write)
        IN  /\ call' = [fn |-> "add_orcid", eid |-> eid, orcid |-> orcid, write |-> write]
            /\ out' = r.out
            /\ coll' = r.store
    /\ ops' = ops + 1
    /\ UNCHANGED <<process, dcoll>>
    /\ UNCHANGED <<entry, result, prev, calls, rec, nameVars, listVars, citeVars, affilVars>>

CallAddOrcidName ==
    /\ ops < MaxOps
    /\ \E l \in Lookups, n \in NameArgs, write \in BOOLEAN :
        LET r == AddOrcidName(l.by, l.val, n.family, n.given, coll, write)
        IN  /\ call' = [fn |-> "add_orcid_name", lookup_by |-> l.by, lookup |-> l.val,
                        write |-> write]
            /\ out' = r.out
            /\ coll' = r.store
    /\ ops' = ops + 1
    /\ UNCHANGED <<process, dcoll>>
    /\ UNCHANGED <<entry, result, prev, calls, rec, nameVars, listVars, citeVars, affilVars>>

CallUpdateExistingOrcid ==
    /\ ops < MaxOps
    /\ \E l \in Lookups, write \in BOOLEAN :
        \E add \in AddedIds(l.by) :
            LET r == UpdateExistingOrcid(l.val, add, coll, l.by, write)
            IN  /\ call' = [fn |-> "update_existing_orcid", lookup_by |-> l.by,
                            lookup |-> l.val, add |-> add, write |-> write]
                /\ out' = r.out
                /\ coll' = r.store
    /\ ops' = ops + 1
    /\ UNCHANGED <<process, dcoll>>
    /\ UNCHANGED <<entry, result, prev, calls, rec, nameVars, listVars, citeVars, affilVars>>

CallUpdateJrcFields ==
    /\ ops < MaxOps
    /\ \E d \in {"D1", "D2"}, payload \in JrcPayloads, write \in BOOLEAN :
        LET r == UpdateJrcFields(d, dcoll, payload, write)
        IN  /\ call' = [fn |-> "update_jrc_fields", doi |-> d, payload |-> payload,
                        write |-> write]
            /\ out' = r.out
            /\ dcoll' = r.store
    /\ ops' = ops + 1
    /\ UNCHANGED <<coll, process>>
    /\ UNCHANGED <<entry, result, prev, calls, rec, nameVars, listVars, citeVars, affilVars>>

CallUpdateJrcAuthorFromDoi ==
    /\ ops < MaxOps
    /\ \E d \in {"D1", "D2", "D3"}, write \in BOOLEAN :
        LET r == UpdateJrcAuthorFromDoi(d, dcoll, coll, write)
        IN  /\ call' = [fn |-> "update_jrc_author_from_doi", doi |-> d, write |-> write]
            /\ out' = r.out
            /\ dcoll' = r.store
    /\ ops' = ops + 1
    /\ UNCHANGED <<coll, process>>
    /\ UNCHANGED <<entry, result, prev, calls, rec, nameVars, listVars, citeVars, affilVars>>

\* the dois collection: a work by a registered and an unregistered author, and
\* a work by an unregistered author that carries a tag from an earlier run
DoiDocuments ==
    << [_id |-> 1, doi |-> "D1", DOI |-> S_DoiPlain,
        author |-> << [given |-> S_Bob, family |-> S_Lee], [given |-> S_Ann, family |-> S_Roe] >>,
        fields |-> (S_title :> S_TitleText)],
       [_id |-> 2, doi |-> "D3", DOI |-> S_DoiElife,
        author |-> << [given |-> S_Ann, family |-> S_Roe] >>,
        fields |-> (S_jrc_author :> <<"E4">>)] >>

InitStore ==
    /\ coll \in StoreRegistries
    /\ process = << [_id |-> 1, doi |-> "D1", inserted |-> 0] >>
    /\ dcoll = DoiDocuments
    /\ ops = 0
    /\ call = NoCall
    /\ out = RetNone
    /\ entry = <<>>
    /\ result = NotCalled /\ prev = NotCalled /\ calls = 0
    /\ rec = <<>>
    /\ orec = <<>> /\ idrec = <<>> /\ before = <<>> /\ runs = 0
    /\ IdleList /\ IdleCite /\ IdleAffil

NextStore ==
    \/ CallSingleOrcidLookup
    \/ CallAddDoiToProcess
    \/ CallAddOrcid
    \/ CallAddOrcidName
    \/ CallUpdateExistingOrcid
    \/ CallUpdateJrcFields
    \/ CallUpdateJrcAuthorFromDoi

SpecStore == InitStore /\ [][NextStore]_vars

-----------------------------------------------------------------------------
(* Properties of the write and lookup operations                           *)

\* some document of the collection holds val in field
Holds(c, field, val) == \E i \in DOMAIN c : Has(c[i], field) /\ c[i][field] = val

\* the call just made (call') finds its precondition broken in the
\* collections as they were before it
PreconditionFails ==
    \/ /\ call'.fn = "add_doi_to_process"
       /\ Holds(process, "doi", call'.doi)
    \/ /\ call'.fn = "add_orcid"
       /\ \/ Holds(coll, "employeeId", call'.eid)
          \/ call'.orcid # "" /\ Holds(coll, "orcid", call'.orcid)
          \/ call'.eid \notin DOMAIN People
    \/ /\ call'.fn \in {"add_orcid_name", "update_existing_orcid"}
       /\ call'.lookup_by \in {"orcid", "employeeId"}
       /\ ~Holds(coll, call'.lookup_by, call'.lookup)
    \/ /\ call'.fn \in {"single_orcid_lookup", "add_orcid_name", "update_existing_orcid"}
       /\ call'.lookup_by \notin {"orcid", "employeeId"}
    \/ /\ call'.fn = "update_jrc_fields"
       /\ \/ ~Holds(dcoll, "doi", call'.doi)
          \/ \E key \in DOMAIN call'.payload : SubSeq(key, 1, 4) # <<"j", "r", "c", "_">>

C18_Lifecycle ==
    [][\A i \in DOMAIN coll :
          /\ i \in DOMAIN coll'
          /\ coll'[i]._id = coll[i]._id
          /\ IsPrefix(coll[i].given, coll'[i].given)
          /\ IsPrefix(coll[i].family, coll'[i].family)
          /\ \A k \in {"orcid", "employeeId"} :
                Has(coll[i], k) => (Has(coll'[i], k) /\ coll'[i][k] = coll[i][k])]_vars

\* C20: from a registry in which no two records share an employeeId or an
\* ORCID, no sequence of add_orcid, add_orcid_name and update_existing_orcid
\* calls leads to two records with the same employeeId or the same ORCID.
C20_UniqueIdentifiers ==
    \A i, j \in DOMAIN coll :
        i # j =>
            /\ ~(Has(coll[i], "orcid") /\ Has(coll[j], "orcid")
                 /\ coll[i].orcid = coll[j].orcid)
            /\ ~(Has(coll[i], "employeeId") /\ Has(coll[j], "employeeId")
                 /\ coll[i].employeeId = coll[j].employeeId)

-----------------------------------------------------------------------------
(* Completion and flag consistency of the resolution                       *)

ResolutionFlags == {"in_database", "janelian", "asserted", "alumni", "validated", "match"}

\* C21: for every author entry get_author_details accepts (structured names,
\* a display name only, an ORCID without a family name, each with or without
\* an affiliation naming the organization) and every registry, the
\* resolution does not raise and its payload carries in_database, janelian,
\* asserted, alumni, validated and match.
C21_ResolutionCompletes ==
    calls >= 1 =>
        /\ result.raised = "none"
        /\ ResolutionFlags \subseteq DOMAIN result.payload

\* C23: in every payload a resolution returns, alumni and janelian are never
\* both true, alumni implies in_database, and janelian implies in_database
\* or asserted.
C23_FlagConsistency ==
    (calls >= 1 /\ result.raised = "none") =>
        /\ ~(result.payload.alumni /\ result.payload.janelian)
        /\ result.payload.alumni => result.payload.in_database
        /\ result.payload.janelian => (result.payload.in_database \/ result.payload.asserted)

\* a former member found in the registry whose entry names the organization
C23_Witness ==
    /\ calls >= 1 /\ result.raised = "none"
    /\ result.payload.alumni /\ result.payload.asserted
    /\ Has(entry, "affiliation")

-----------------------------------------------------------------------------
(* Dry runs                                                                *)

WriteOperations ==
    {"add_doi_to_process", "add_orcid", "add_orcid_name", "update_existing_orcid",
     "update_jrc_fields", "update_jrc_author_from_doi"}

\* C22: a write operation called with write = false leaves the identity
\* registry, the dois collection and the process collection as they were,
\* for every argument and every state of the collections.
C22_DryRun ==
    [][(call'.fn \in WriteOperations /\ ~call'.write) =>
          (coll' = coll /\ dcoll' = dcoll /\ process' = process)]_vars

\* a dry run of update_jrc_author_from_doi that found a current member on a
\* work without the tag
C22_Witness ==
    /\ call.fn = "update_jrc_author_from_doi"
    /\ ~call.write
    /\ out.raised = "none" /\ ~out.isNone /\ Len(out.value) > 0
    /\ \E i \in DOMAIN dcoll :
          dcoll[i].doi = call.doi /\ ~Has(dcoll[i].fields, S_jrc_author)

=============================================================================
